---- MODULE Spec2Model ----
(***************************************************************************)
(* Model of the evidence-and-care-plan synthesis pipeline of               *)
(* langgraph-wso2-ai-sample: the OAuth2 credential caches, the MCP tool    *)
(* directory (listing cache and keyword selection), the trial relevance    *)
(* scorer and the care-plan orchestration pipeline.                        *)
(*                                                                         *)
(* Conventions: Python None is the string "None"; wall-clock time is an    *)
(* integer number of seconds; suitability scores are integers in           *)
(* hundredths (2.0 is 200), which makes round(score, 2) exact; strings     *)
(* that the code searches are tuples of one-character strings.             *)
(***************************************************************************)
EXTENDS Integers, Sequences, FiniteSets, TLC

VARIABLES
    now,            \* time.time()
    configured,     \* per trust domain, the required settings that are set
    token_cache,    \* _access_token_cache / _mcp_access_token_cache
    token_log,      \* the get_token calls made so far, as observed
    tools_cache,    \* _mcp_tools_cache
    tools_log,      \* the list_tools calls made so far, as observed
    sel_tools,      \* select_tool: the tool list given
    sel_keywords,   \* select_tool: the keywords given
    sel_result,     \* select_tool: what the call returned
    sc_context,     \* Scorer: the patient context
    sc_trials,      \* Scorer: the candidate trials retrieved
    sc_main,        \* Scorer: the matches fetch_trials returned
    sc_mcp,         \* Scorer: the matches generate_evidence_pack_mcp kept
    endpoints,      \* the service URLs that are configured
    pc,             \* care-plan run: the node to execute next
    run_state,      \* care-plan run: the accumulated CarePlanState
    executed,       \* care-plan run: the nodes executed so far, in order
    raised,         \* care-plan run: the exception that ended the graph run
    observed,       \* care-plan run: what the upstream services answered
    response,       \* care-plan run: the HTTP response sent to the caller
    ev_pc,          \* evidence run: the node to execute next
    ev_state,       \* evidence run: the accumulated EvidenceState
    ev_raised,      \* evidence run: the exception that ended the graph run
    ev_reply,       \* evidence run: what the chat endpoint answered
    ev_response,    \* evidence run: the HTTP response sent to the caller
    mg_primary,     \* merge: the model draft given to _merge_plan_cards
    mg_fallback,    \* merge: the heuristic card given to _merge_plan_cards
    mg_result,      \* merge: what the call raised and returned
    conc,           \* concurrent get_token calls: each thread's position and locals
    cg_node,        \* counter graph: the node to execute next
    cg_state,       \* counter graph: the CounterState
    cg_log,         \* counter graph: the count it was started with, the node runs
    mp_schema,      \* map_parameter: the inputSchema of the selected tool
    mp_call         \* map_parameter: the arguments the tool was called with

credVars == <<now, configured, token_cache, token_log>>

toolsVars == <<tools_cache, tools_log>>

selVars == <<sel_tools, sel_keywords, sel_result>>

scorerVars == <<sc_context, sc_trials, sc_main, sc_mcp>>

evVars == <<ev_pc, ev_state, ev_raised, ev_reply, ev_response>>

mergeVars == <<mg_primary, mg_fallback, mg_result>>

concVars == <<conc>>

counterVars == <<cg_node, cg_state, cg_log>>

paramVars == <<mp_schema, mp_call>>

runVars == <<endpoints, pc, run_state, executed, raised, observed, response>>

vars == <<now, configured, token_cache, token_log, tools_cache, tools_log,
          sel_tools, sel_keywords, sel_result, sc_context, sc_trials, sc_main, sc_mcp,
          endpoints, pc, run_state, executed, raised, observed, response,
          ev_pc, ev_state, ev_raised, ev_reply, ev_response,
          mg_primary, mg_fallback, mg_result, conc, cg_node, cg_state, cg_log,
          mp_schema, mp_call>>

None == "None"

(***************************************************************************)
(* Bounds of the model.                                                    *)
(***************************************************************************)
StartTime == 1000
MaxTime == 1060
MaxCalls == 3
TimeStep == 30
MaxLookupTime == 1300
MaxLookups == 3
LookupTimeStep == 100
MaxTools == 3
MaxTrials == 4

(***************************************************************************)
(* Program constants.                                                      *)
(***************************************************************************)
TokenBuffer == 60
DefaultExpiresIn == 3600

(***************************************************************************)
(* Credential cache: one token cache per trust domain.                     *)
(***************************************************************************)
Domains == {"api_manager", "mcp_gateway"}

Settings == {"client_id", "client_secret", "token_endpoint"}

\* The configurations a process can start with: everything set, or one of
\* the three required settings missing.
ConfigChoices == {Settings} \cup {Settings \ {s} : s \in Settings}

Tokens == {"tok1", "tok2"}

ExpiresInValues == {30, 120}

\* The exchanges that give no token: requests.post raises, the status is
\* not 2xx, the body is not JSON, the body is a JSON object without
\* access_token, and the body is JSON but not an object ([], null, a string
\* or a number).
FailedExchanges ==
    {"network_error", "http_error", "not_json", "no_access_token", "body_not_object"}

\* What the token endpoint can answer to one exchange request.  expires_in is
\* <<>> when the body has no such key.
TokenResponses ==
    [kind : FailedExchanges, access_token : {None}, expires_in : {<<>>}]
    \cup [kind : {"ok"}, access_token : Tokens,
          expires_in : {<<>>} \cup {<<e>> : e \in ExpiresInValues}]

EmptyTokenCache == [token |-> None, expires_at |-> 0]

\* all([CLIENT_ID, CLIENT_SECRET, TOKEN_ENDPOINT])
CredentialsConfigured(cfg) == Settings \subseteq cfg

\* token_data.get("expires_in", 3600)
ExpiresIn(resp) == IF resp.expires_in = <<>> THEN DefaultExpiresIn ELSE resp.expires_in[1]

\* Mutant of ExpiryValid: the safety buffer is forgotten.
ExpiryValidNoBuffer(expires_at, t) == expires_at > t

\* Mutant of ExpiryValid: the comparison is reversed.
ExpiryValidReversed(expires_at, t) == expires_at < t + TokenBuffer

\* _access_token_cache["expires_at"] > time.time() + 60
ExpiryValid(expires_at, t) == expires_at > t + TokenBuffer

\* The cached token is still valid (with 60 second buffer).
CachedTokenValid(cache, t) == cache.token # None /\ ExpiryValid(cache.expires_at, t)

\* requests.post(...) returned, raise_for_status(), response.json() and
\* token_data["access_token"] raised nothing.
ExchangeOk(resp) == resp.kind = "ok"

\* The exception of a failed exchange: requests.RequestException (a network
\* error, raise_for_status), ValueError (response.json() on a body that is
\* not JSON), KeyError (token_data["access_token"] on an object without the
\* key) and TypeError (token_data["access_token"] on a list, None, a string
\* or a number).
ExchangeException(resp) ==
    CASE resp.kind \in {"network_error", "http_error"} -> "RequestException"
      [] resp.kind = "not_json" -> "ValueError"
      [] resp.kind = "no_access_token" -> "KeyError"
      [] resp.kind = "body_not_object" -> "TypeError"
      [] OTHER -> "None"

\* except (requests.RequestException, KeyError, ValueError): return None
CaughtByTokenFunction == {"RequestException", "KeyError", "ValueError"}

\* time.time() + expires_in, t being the clock when the store is made, that
\* is after requests.post has returned.
ExpiryWritten(t, resp) == t + ExpiresIn(resp)

(***************************************************************************)
(* Strings.  Python's str.lower() and the substring test `a in b'.         *)
(***************************************************************************)
UpperCase ==
    <<"A", "B", "C", "D", "E", "F", "G", "H", "I", "J", "K", "L", "M",
      "N", "O", "P", "Q", "R", "S", "T", "U", "V", "W", "X", "Y", "Z">>

LowerCase ==
    <<"a", "b", "c", "d", "e", "f", "g", "h", "i", "j", "k", "l", "m",
      "n", "o", "p", "q", "r", "s", "t", "u", "v", "w", "x", "y", "z">>

\* The lower-case letter of each upper-case letter.
ToLower ==
    [c \in {UpperCase[i] : i \in 1..Len(UpperCase)} |->
        LowerCase[CHOOSE i \in 1..Len(UpperCase) : UpperCase[i] = c]]

LowerChar(c) == IF c \in DOMAIN ToLower THEN ToLower[c] ELSE c

\* str.lower()
Lower(str) == [i \in 1..Len(str) |-> LowerChar(str[i])]

\* needle in hay
Contains(hay, needle) ==
    \E i \in 0..(Len(hay) - Len(needle)) : SubSeq(hay, i + 1, i + Len(needle)) = needle

\* The texts the code searches and compares, each as a tuple of characters:
\* tool names, tool descriptions and keywords, then the conditions, titles
\* and eligibility texts of the trials.
Str ==
    [getPatientSummary |->
        <<"g", "e", "t", "P", "a", "t", "i", "e", "n", "t", "S", "u", "m", "m", "a",
          "r", "y">>,
     getLabs |->
        <<"g", "e", "t", "L", "a", "b", "s">>,
     RetrievePatientSummaryData |->
        <<"R", "e", "t", "r", "i", "e", "v", "e", " ", "p", "a", "t", "i", "e", "n",
          "t", " ", "s", "u", "m", "m", "a", "r", "y", " ", "d", "a", "t", "a">>,
     getPatientsIdSummary |->
        <<"g", "e", "t", "P", "a", "t", "i", "e", "n", "t", "s", "I", "d", "S", "u",
          "m", "m", "a", "r", "y">>,
     getTrials |->
        <<"g", "e", "t", "T", "r", "i", "a", "l", "s">>,
     ListAllTrials |->
        <<"L", "i", "s", "t", " ", "a", "l", "l", " ", "c", "l", "i", "n", "i", "c",
          "a", "l", " ", "t", "r", "i", "a", "l", "s">>,
     postOrdersMedication |->
        <<"p", "o", "s", "t", "O", "r", "d", "e", "r", "s", "M", "e", "d", "i", "c",
          "a", "t", "i", "o", "n">>,
     getDebugData |->
        <<"g", "e", "t", "D", "e", "b", "u", "g", "D", "a", "t", "a">>,
     patient |->
        <<"p", "a", "t", "i", "e", "n", "t">>,
     summary |->
        <<"s", "u", "m", "m", "a", "r", "y">>,
     get |->
        <<"g", "e", "t">>,
     trials |->
        <<"t", "r", "i", "a", "l", "s">>,
     list |->
        <<"l", "i", "s", "t">>,
     all |->
        <<"a", "l", "l">>,
     id |->
        <<"i", "d">>,
     patientId |->
        <<"p", "a", "t", "i", "e", "n", "t", "I", "d">>,
     Type2DiabetesMellitus |->
        <<"T", "y", "p", "e", " ", "2", " ", "d", "i", "a", "b", "e", "t", "e", "s",
          " ", "m", "e", "l", "l", "i", "t", "u", "s">>,
     Hypertension |->
        <<"H", "y", "p", "e", "r", "t", "e", "n", "s", "i", "o", "n">>,
     ckd |->
        <<"c", "k", "d">>,
     renal |->
        <<"r", "e", "n", "a", "l">>,
     kidney |->
        <<"k", "i", "d", "n", "e", "y">>,
     eGFR |->
        <<"e", "G", "F", "R">>,
     BuiltInTitle1 |->
        <<"S", "G", "L", "T", "2", " ", "I", "n", "h", "i", "b", "i", "t", "o", "r",
          " ", "S", "t", "u", "d", "y", " ", "f", "o", "r", " ", "C", "K", "D", " ",
          "P", "a", "t", "i", "e", "n", "t", "s">>,
     BuiltInCondition1 |->
        <<"T", "y", "p", "e", " ", "2", " ", "d", "i", "a", "b", "e", "t", "e", "s",
          " ", "m", "e", "l", "l", "i", "t", "u", "s", " ", "w", "i", "t", "h", " ",
          "c", "h", "r", "o", "n", "i", "c", " ", "k", "i", "d", "n", "e", "y", " ",
          "d", "i", "s", "e", "a", "s", "e">>,
     BuiltInEligibility1 |->
        <<"e", "G", "F", "R", " ", "3", "0", "-", "6", "0", ",", " ", "H", "b", "A",
          "1", "c", " ", "7", "-", "1", "0", "%">>,
     BuiltInTitle2 |->
        <<"G", "L", "P", "-", "1", " ", "R", "A", " ", "i", "n", " ", "A", "d", "v",
          "a", "n", "c", "e", "d", " ", "C", "K", "D">>,
     BuiltInCondition2 |->
        <<"C", "h", "r", "o", "n", "i", "c", " ", "k", "i", "d", "n", "e", "y", " ",
          "d", "i", "s", "e", "a", "s", "e", " ", "s", "t", "a", "g", "e", " ", "3",
          "-", "4">>,
     BuiltInEligibility2 |->
        <<"A", "d", "u", "l", "t", "s", " ", "w", "i", "t", "h", " ", "e", "G", "F",
          "R", " ", "1", "5", "-", "6", "0">>,
     Title1 |->
        <<"S", "G", "L", "T", "2", "i", " ", "O", "u", "t", "c", "o", "m", "e", "s",
          " ", "i", "n", " ", "C", "K", "D", " ", "S", "t", "a", "g", "e", " ",
          "3">>,
     Eligibility1 |->
        <<"A", "d", "u", "l", "t", "s", " ", "4", "0", "-", "7", "5", " ", "w", "i",
          "t", "h", " ", "t", "y", "p", "e", " ", "2", " ", "d", "i", "a", "b", "e",
          "t", "e", "s", " ", "a", "n", "d", " ", "e", "G", "F", "R", " ", "4", "5",
          "-", "6", "0">>,
     Title2 |->
        <<"G", "L", "P", "-", "1", " ", "R", "A", " ", "R", "e", "n", "a", "l", " ",
          "O", "u", "t", "c", "o", "m", "e", "s", " ", "R", "e", "g", "i", "s", "t",
          "r", "y">>,
     Eligibility2 |->
        <<"T", "2", "D", " ", "a", "d", "u", "l", "t", "s", " ", "w", "i", "t", "h",
          " ", "e", "G", "F", "R", " ", "3", "0", "-", "6", "0", " ", "o", "n", " ",
          "s", "t", "a", "b", "l", "e", " ", "m", "e", "t", "f", "o", "r", "m", "i",
          "n">>,
     Title3 |->
        <<"C", "a", "r", "d", "i", "o", "H", "e", "a", "l", "t", "h", " ", "O", "u",
          "t", "c", "o", "m", "e", "s", " ", "S", "t", "u", "d", "y">>,
     Eligibility3 |->
        <<"A", "d", "u", "l", "t", "s", " ", "w", "i", "t", "h", " ", "r", "e", "s",
          "i", "s", "t", "a", "n", "t", " ", "h", "y", "p", "e", "r", "t", "e", "n",
          "s", "i", "o", "n">>,
     Title4 |->
        <<"R", "e", "n", "a", "l", " ", "O", "u", "t", "c", "o", "m", "e", "s", " ",
          "i", "n", " ", "D", "i", "a", "b", "e", "t", "e", "s">>,
     Eligibility4 |->
        <<"e", "G", "F", "R", " ", "3", "0", "-", "6", "0">>,
     Title5 |->
        <<"G", "L", "P", "-", "1", " ", "R", "A", " ", "i", "n", " ", "A", "d", "v",
          "a", "n", "c", "e", "d", " ", "C", "K", "D">>,
     Condition5 |->
        <<"C", "K", "D", " ", "s", "t", "a", "g", "e", " ", "3", "-", "4">>,
     Eligibility5 |->
        <<"A", "d", "u", "l", "t", "s", " ", "w", "i", "t", "h", " ", "e", "G", "F",
          "R", " ", "1", "5", "-", "6", "0">>,
     Title6 |->
        <<"C", "K", "D", " ", "B", "i", "o", "m", "a", "r", "k", "e", "r", " ", "S",
          "t", "u", "d", "y">>,
     Condition6 |->
        <<"C", "h", "r", "o", "n", "i", "c", " ", "r", "e", "n", "a", "l", " ", "i",
          "n", "s", "u", "f", "f", "i", "c", "i", "e", "n", "c", "y">>,
     Condition7 |->
        <<"D", "i", "a", "b", "e", "t", "e", "s", " ", "m", "e", "l", "l", "i", "t", "u", "s">>,
     diabetes |->
        <<"d", "i", "a", "b", "e", "t", "e", "s">>,
     None_ |->
        <<"N", "o", "n", "e">>,
     week |->
        <<"w", "e", "e", "k">>,
     month |->
        <<"m", "o", "n", "t", "h">>,
     day |->
        <<"d", "a", "y">>,
     Weekly |->
        <<"W", "e", "e", "k", "l", "y">>,
     Every3Months |->
        <<"e", "v", "e", "r", "y", " ", "3", " ", "m", "o", "n", "t", "h", "s">>,
     TrialA |->
        <<"T", "r", "i", "a", "l", " ", "A">>,
     trialA |->
        <<"t", "r", "i", "a", "l", " ", "a">>,
     TrialB |->
        <<"T", "r", "i", "a", "l", " ", "B">>,
     TrialC |->
        <<"T", "r", "i", "a", "l", " ", "C">>,
     NCT1 |->
        <<"N", "C", "T", "0", "0", "0", "0", "0", "0", "0", "1">>,
     nct1 |->
        <<"n", "c", "t", "0", "0", "0", "0", "0", "0", "0", "1">>,
     NCT2 |->
        <<"N", "C", "T", "0", "0", "0", "0", "0", "0", "0", "2">>,
     NCT3 |->
        <<"N", "C", "T", "0", "0", "0", "0", "0", "0", "0", "3">>,
     Recruiting |->
        <<"R", "e", "c", "r", "u", "i", "t", "i", "n", "g">>,
     Reference |->
        <<"R", "e", "f", "e", "r", "e", "n", "c", "e">>,
     HeuristicRecommendation |->
        <<"S", "t", "a", "r", "t", " ", "S", "G", "L", "T", "2", " ", "i", "n", "h",
          "i", "b", "i", "t", "o", "r", " ", "(", "e", "m", "p", "a", "g", "l", "i",
          "f", "l", "o", "z", "i", "n", " ", "1", "0", " ", "m", "g", " ", "d", "a",
          "i", "l", "y", ")", ".">>,
     empagliflozin |->
        <<"e", "m", "p", "a", "g", "l", "i", "f", "l", "o", "z", "i", "n">>,
     Dose10mg |->
        <<"1", "0", " ", "m", "g", " ", "q", "d", "a", "y">>,
     BMP |->
        <<"B", "M", "P">>,
     A1c |->
        <<"A", "1", "c">>,
     RCT |->
        <<"R", "C", "T">>,
     EMPAREG |->
        <<"E", "M", "P", "A", "-", "R", "E", "G">>,
     Guideline |->
        <<"G", "u", "i", "d", "e", "l", "i", "n", "e">>,
     KDIGO |->
        <<"K", "D", "I", "G", "O">>,
     ModelName |->
        <<"g", "p", "t", "-", "4", "o", "-", "m", "i", "n", "i">>,
     Year2015 |->
        <<"2", "0", "1", "5">>,
     Year2022 |->
        <<"2", "0", "2", "2">>,
     NoDate |->
        <<"n", ".", "d", ".">>,
     Near |->
        <<"n", "e", "a", "r">>]

(***************************************************************************)
(* Tool directory: the tools a gateway can list.                           *)
(***************************************************************************)
ToolGetPatientSummary ==
    [name |-> Str.getPatientSummary, description |-> <<>>,
     properties |-> <<Str.patientId>>, required |-> <<Str.patientId>>]

ToolGetLabs ==
    [name |-> Str.getLabs, description |-> Str.RetrievePatientSummaryData,
     properties |-> <<Str.id>>, required |-> <<Str.id>>]

ToolGetPatientsIdSummary ==
    [name |-> Str.getPatientsIdSummary, description |-> <<>>,
     properties |-> <<Str.id>>, required |-> <<Str.id>>]

ToolGetTrials ==
    [name |-> Str.getTrials, description |-> Str.ListAllTrials,
     properties |-> <<>>, required |-> <<>>]

ToolGetDebugData ==
    [name |-> Str.getDebugData, description |-> <<>>,
     properties |-> <<>>, required |-> <<>>]

ToolPostOrdersMedication ==
    [name |-> Str.postOrdersMedication, description |-> <<>>,
     properties |-> <<>>, required |-> <<>>]

ToolPool ==
    {ToolGetPatientSummary, ToolGetLabs, ToolGetPatientsIdSummary, ToolGetTrials,
     ToolGetDebugData, ToolPostOrdersMedication}

\* keywords=["patient", "summary", "get"] of fetch_patient_summary,
\* keywords=["get", "trials", "list", "all"] of fetch_trials, and a caller
\* asking for ["patient", "summary"].
KeywordLists ==
    {<<Str.patient, Str.summary, Str.get>>,
     <<Str.get, Str.trials, Str.list, Str.all>>,
     <<Str.patient, Str.summary>>}

NameMatchScore == 10
DescriptionMatchScore == 5

\* The inner loop of _find_best_mcp_tool: the score of one tool, adding the
\* contributions of keywords[k..].
RECURSIVE KeywordScore(_, _, _, _)
KeywordScore(name, description, keywords, k) ==
    IF k > Len(keywords) THEN 0
    ELSE LET keyword_lower == Lower(keywords[k]) IN
         (IF Contains(name, keyword_lower) THEN NameMatchScore ELSE 0)
         + (IF Contains(description, keyword_lower) THEN DescriptionMatchScore ELSE 0)
         + KeywordScore(name, description, keywords, k + 1)

ToolScore(tool, keywords) ==
    KeywordScore(Lower(tool.name), Lower(tool.description), keywords, 1)

\* Mutant of BetterThanBest: a later tool with an equal score replaces the
\* best match.
BetterOrEqualToBest(score, best_score) == score >= best_score

\* if score > best_score
BetterThanBest(score, best_score) == score > best_score

\* The outer loop of _find_best_mcp_tool from tool i on; best_match is an
\* index into tools, 0 standing for None.
RECURSIVE FindBestLoop(_, _, _, _, _)
FindBestLoop(tools, keywords, i, best_match, best_score) ==
    IF i > Len(tools) THEN best_match
    ELSE LET score == ToolScore(tools[i], keywords) IN
         IF BetterThanBest(score, best_score)
         THEN FindBestLoop(tools, keywords, i + 1, i, score)
         ELSE FindBestLoop(tools, keywords, i + 1, best_match, best_score)

\* _find_best_mcp_tool(tools, purpose, keywords): the index of the tool
\* returned, 0 when it returns None.
FindBestMcpTool(tools, keywords) == FindBestLoop(tools, keywords, 1, 0, 0)

RECURSIVE ToolListsOfLen(_)
ToolListsOfLen(n) ==
    IF n = 0 THEN {<<>>}
    ELSE {Append(l, t) : l \in ToolListsOfLen(n - 1), t \in ToolPool}

ToolLists == UNION {ToolListsOfLen(n) : n \in 0..MaxTools}

NotRun == [ran |-> FALSE, index |-> 0]

(***************************************************************************)
(* Trial relevance scorer.  Optional fields are <<>> when the key is       *)
(* absent (or null) and <<v>> when it carries v; distances are in tenths   *)
(* of a kilometre and suitability in hundredths.                           *)
(***************************************************************************)
\* The seed trials of the trial registry (snake_case field names).
Trial1 ==
    [id |-> 1, title |-> Str.Title1, condition |-> Str.Type2DiabetesMellitus,
     eligibilitySummary |-> <<>>, eligibility_summary |-> <<Str.Eligibility1>>,
     distance |-> <<>>, site_distance_km |-> <<124>>]

Trial2 ==
    [id |-> 2, title |-> Str.Title2, condition |-> Str.Type2DiabetesMellitus,
     eligibilitySummary |-> <<>>, eligibility_summary |-> <<Str.Eligibility2>>,
     distance |-> <<>>, site_distance_km |-> <<149>>]

Trial3 ==
    [id |-> 3, title |-> Str.Title3, condition |-> Str.Hypertension,
     eligibilitySummary |-> <<>>, eligibility_summary |-> <<Str.Eligibility3>>,
     distance |-> <<>>, site_distance_km |-> <<520>>]

\* Trials as the MCP gateway returns them (camelCase field names).
Trial4 ==
    [id |-> 4, title |-> Str.Title4, condition |-> Str.Type2DiabetesMellitus,
     eligibilitySummary |-> <<Str.Eligibility4>>, eligibility_summary |-> <<>>,
     distance |-> <<124>>, site_distance_km |-> <<>>]

Trial5 ==
    [id |-> 5, title |-> Str.Title5, condition |-> Str.Condition5,
     eligibilitySummary |-> <<Str.Eligibility5>>, eligibility_summary |-> <<>>,
     distance |-> <<520>>, site_distance_km |-> <<>>]

\* A trial that declares neither an eligibility text nor a distance.
Trial6 ==
    [id |-> 6, title |-> Str.Title6, condition |-> Str.Condition6,
     eligibilitySummary |-> <<>>, eligibility_summary |-> <<>>,
     distance |-> <<>>, site_distance_km |-> <<>>]

\* A trial titled like Trial4 whose condition names diabetes without the
\* patient's full diagnosis text.
Trial7 ==
    [id |-> 7, title |-> Str.Title4, condition |-> Str.Condition7,
     eligibilitySummary |-> <<Str.Eligibility4>>, eligibility_summary |-> <<>>,
     distance |-> <<124>>, site_distance_km |-> <<>>]

TrialPool == {Trial1, Trial2, Trial3, Trial4, Trial5, Trial6, Trial7}

\* Lists of distinct trials, of length n.
RECURSIVE TrialListsOfLen(_)
TrialListsOfLen(n) ==
    IF n = 0 THEN {<<>>}
    ELSE {Append(l, t) : l \in TrialListsOfLen(n - 1), t \in TrialPool}

Distinct(l) == \A i, j \in 1..Len(l) : i # j => l[i] # l[j]

TrialLists == {l \in UNION {TrialListsOfLen(n) : n \in 0..MaxTrials} : Distinct(l)}

\* geo is <<>> for None and <<radius_km>> for a geographic filter.
PatientContexts ==
    [age : {58, 62},
     diagnosis : {Str.Type2DiabetesMellitus, Str.Hypertension},
     egfr : {44, 50},
     geo : {<<>>, <<50>>, <<250>>}]

\* a or b, for optional numbers (0 and None are falsy).
OrNumber(a, b) == IF a # <<>> /\ a[1] # 0 THEN a ELSE b

\* a or b, for optional strings ("" and None are falsy).
OrString(a, b) == IF a # <<>> /\ a[1] # <<>> THEN a ELSE b

DiagnosisScore == 200
RenalScore == 80
EgfrScore == 70
AgeScore == 30
EgfrThreshold == 45
AgeThreshold == 60
TopN == 3

\* eligibility = trial.get("eligibilitySummary") or trial.get("eligibility_summary")
Eligibility(trial) == OrString(trial.eligibilitySummary, trial.eligibility_summary)

\* distance = trial.get("distance") or trial.get("site_distance_km")
Distance(trial) == OrNumber(trial.distance, trial.site_distance_km)

\* The additive score fetch_trials gives one trial.
Suitability(context, trial) ==
    LET diagnosis == Lower(context.diagnosis)
        eligibility == Eligibility(trial)
    IN  (IF Contains(Lower(trial.condition), diagnosis) THEN DiagnosisScore ELSE 0)
        + (IF Contains(Lower(trial.condition), Str.ckd) \/ Contains(Lower(trial.title), Str.renal)
           THEN RenalScore ELSE 0)
        + (IF /\ context.egfr <= EgfrThreshold
              /\ eligibility # <<>> /\ eligibility[1] # <<>>
              /\ Contains(eligibility[1], Str.eGFR)
           THEN EgfrScore ELSE 0)
        + (IF context.age >= AgeThreshold THEN AgeScore ELSE 0)

\* if geo and distance is not None and distance > geo["radius_km"]: continue
OutsideRadius(context, trial) ==
    /\ context.geo # <<>>
    /\ Distance(trial) # <<>>
    /\ Distance(trial)[1] > context.geo[1]

\* The TrialMatch fetch_trials appends for a trial.
TrialMatch(context, trial) ==
    [id |-> trial.id, title |-> trial.title, condition |-> trial.condition,
     site_distance_km |-> Distance(trial),
     suitability |-> Suitability(context, trial)]

\* The scoring loop of fetch_trials over trials[i..].
RECURSIVE ScoredFrom(_, _, _)
ScoredFrom(context, trials, i) ==
    IF i > Len(trials) THEN <<>>
    ELSE IF OutsideRadius(context, trials[i])
    THEN ScoredFrom(context, trials, i + 1)
    ELSE <<TrialMatch(context, trials[i])>> \o ScoredFrom(context, trials, i + 1)

\* Mutant of InsertDescending: x goes before the elements of equal
\* suitability, so the sort is not stable.
RECURSIVE InsertDescendingBeforeEqual(_, _)
InsertDescendingBeforeEqual(sorted, x) ==
    IF sorted = <<>> THEN <<x>>
    ELSE IF Head(sorted).suitability > x.suitability
    THEN <<Head(sorted)>> \o InsertDescendingBeforeEqual(Tail(sorted), x)
    ELSE <<x>> \o sorted

\* Insert x into a list sorted by non-increasing suitability, after every
\* element that is at least as suitable.
RECURSIVE InsertDescending(_, _)
InsertDescending(sorted, x) ==
    IF sorted = <<>> THEN <<x>>
    ELSE IF Head(sorted).suitability >= x.suitability
    THEN <<Head(sorted)>> \o InsertDescending(Tail(sorted), x)
    ELSE <<x>> \o sorted

\* list.sort(key=suitability, reverse=True): stable, equal elements keep
\* their order.
RECURSIVE SortBySuitability(_, _)
SortBySuitability(list, n) ==
    IF n = 0 THEN <<>>
    ELSE InsertDescending(SortBySuitability(list, n - 1), list[n])

\* Mutant of Top: one element too many is kept.
TopOffByOne(list) == SubSeq(list, 1, IF Len(list) < TopN + 1 THEN Len(list) ELSE TopN + 1)

\* scored[:3]
Top(list) == SubSeq(list, 1, IF Len(list) < TopN THEN Len(list) ELSE TopN)

\* fetch_trials, from the trials retrieved to the trial matches returned.
FetchTrialsScorer(context, trials) ==
    LET scored == ScoredFrom(context, trials, 1) IN
    Top(SortBySuitability(scored, Len(scored)))

McpDiagnosisScore == 200
McpKidneyScore == 100
McpEgfrScore == 100
McpAgeScore == 50
McpEgfrThreshold == 60

\* The score generate_evidence_pack_mcp gives one trial.
McpSuitability(context, trial) ==
    LET condition == Lower(trial.condition)
        eligibility == trial.eligibility_summary
    IN  (IF Contains(condition, Lower(context.diagnosis)) THEN McpDiagnosisScore ELSE 0)
        + (IF Contains(condition, Str.ckd) \/ Contains(condition, Str.kidney)
           THEN McpKidneyScore ELSE 0)
        + (IF /\ eligibility # <<>> /\ eligibility[1] # <<>>
              /\ Contains(eligibility[1], Str.eGFR)
              /\ context.egfr <= McpEgfrThreshold
           THEN McpEgfrScore ELSE 0)
        + (IF context.age >= AgeThreshold THEN McpAgeScore ELSE 0)

\* distance = trial.get("site_distance_km")
\* if request.geo and distance and distance > request.geo.radius_km: continue
McpOutsideRadius(context, trial) ==
    /\ context.geo # <<>>
    /\ trial.site_distance_km # <<>> /\ trial.site_distance_km[1] # 0
    /\ trial.site_distance_km[1] > context.geo[1]

McpTrialMatch(context, trial) ==
    [id |-> trial.id, title |-> trial.title, condition |-> trial.condition,
     site_distance_km |-> trial.site_distance_km,
     suitability |-> McpSuitability(context, trial)]

RECURSIVE McpScoredFrom(_, _, _)
McpScoredFrom(context, trials, i) ==
    IF i > Len(trials) THEN <<>>
    ELSE IF McpOutsideRadius(context, trials[i])
    THEN McpScoredFrom(context, trials, i + 1)
    ELSE <<McpTrialMatch(context, trials[i])>> \o McpScoredFrom(context, trials, i + 1)

\* The synthetic trials generate_evidence_pack_mcp falls back on.
BuiltInTrials ==
    <<[id |-> 1, title |-> Str.BuiltInTitle1, condition |-> Str.BuiltInCondition1,
       eligibilitySummary |-> <<>>, eligibility_summary |-> <<Str.BuiltInEligibility1>>,
       distance |-> <<>>, site_distance_km |-> <<152>>],
      [id |-> 2, title |-> Str.BuiltInTitle2, condition |-> Str.BuiltInCondition2,
       eligibilitySummary |-> <<>>, eligibility_summary |-> <<Str.BuiltInEligibility2>>,
       distance |-> <<>>, site_distance_km |-> <<228>>]>>

\* trials = fetch_trials_via_mcp(); if not trials: trials = [the synthetic
\* trials]: the trials that are scored.
McpCandidates(trials) == IF trials = <<>> THEN BuiltInTrials ELSE trials

\* generate_evidence_pack_mcp, from the trials retrieved to top_trials.
McpScorer(context, trials) ==
    LET scored == McpScoredFrom(context, McpCandidates(trials), 1) IN
    Top(SortBySuitability(scored, Len(scored)))

HighThreshold == 250
MediumThreshold == 150

\* Mutant of SyntheticLlmGrade: a suitability of exactly 1.5 is graded low.
SyntheticLlmGradeStrict(trial) ==
    [trial_id |-> trial.id, trial_title |-> trial.title,
     pico_grade |-> IF trial.suitability >= HighThreshold THEN "high"
                    ELSE IF trial.suitability > MediumThreshold THEN "medium"
                    ELSE "low"]

\* _synthetic_llm_grade: the heuristic analysis of one trial match.
SyntheticLlmGrade(trial) ==
    [trial_id |-> trial.id, trial_title |-> trial.title,
     pico_grade |-> IF trial.suitability >= HighThreshold THEN "high"
                    ELSE IF trial.suitability >= MediumThreshold THEN "medium"
                    ELSE "low"]

\* [_synthetic_llm_grade(trial, context) for trial in trials]
HeuristicAnalyses(matches) == [i \in 1..Len(matches) |-> SyntheticLlmGrade(matches[i])]

\* The analysis generate_evidence_pack_mcp appends for one of top_trials.
McpGrade(trial) ==
    [trial_id |-> trial.id, trial_title |-> trial.title,
     pico_grade |-> IF trial.suitability >= HighThreshold THEN "high"
                    ELSE IF trial.suitability >= MediumThreshold THEN "medium"
                    ELSE "low"]

McpAnalyses(matches) == [i \in 1..Len(matches) |-> McpGrade(matches[i])]

\* What a scorer has done: whether it ran, the exception it raised, the
\* trials it scored, the matches it returned and their analyses.
NoMatches ==
    [ran |-> FALSE, raised |-> "None", candidates |-> <<>>, matches |-> <<>>,
     analyses |-> <<>>]

IdleScorer ==
    /\ sc_context = [age |-> 0, diagnosis |-> <<>>, egfr |-> 0, geo |-> <<>>]
    /\ sc_trials = <<>>
    /\ sc_main = NoMatches
    /\ sc_mcp = NoMatches

(***************************************************************************)
(* Evidence grading (evidence-agent/evidence_agent.py): the graph          *)
(* fetch_trials -> llm_grade_trials -> analyze_evidence behind             *)
(* POST /agents/evidence/search.                                           *)
(***************************************************************************)
MaxEntries == 3

\* The ways an analysis entry can name a trial: the integer id, the id as a
\* string, or the NCT id.  `id' is the trial named.
TrialIdForms == {"int", "str", "nct_id"}

\* The trial_id values of the entries considered: none, trial 1 by integer,
\* trial 4 by string, and a trial that was not sent.
EntryTrialIds ==
    {<<>>, <<[form |-> "int", id |-> 1]>>, <<[form |-> "str", id |-> 4]>>,
     <<[form |-> "int", id |-> 99]>>}

\* The pico_grade texts of the entries considered (<<>> when the key is
\* absent).
EntryGrades == {<<>>, <<"High">>, <<"strong">>}

\* str.lower() of the grade texts.
LowerGrade == [g \in {"High", "strong", "medium"} |-> IF g = "High" THEN "high" ELSE g]

\* The object {}, which Python treats as false.
EmptyEntry == [is_object |-> TRUE, empty |-> TRUE, trial_id |-> <<>>, pico_grade |-> <<>>]

\* The entries of the model's `analyses' list: something that is not an
\* object, the empty object, or an object with a trial_id and a pico_grade
\* (an object without either has some other key).
AnalysisEntries ==
    {[is_object |-> FALSE, empty |-> FALSE, trial_id |-> <<>>, pico_grade |-> <<>>],
     EmptyEntry}
    \cup [is_object : {TRUE}, empty : {FALSE}, trial_id : EntryTrialIds,
          pico_grade : EntryGrades]

RECURSIVE EntryListsOfLen(_)
EntryListsOfLen(n) ==
    IF n = 0 THEN {<<>>}
    ELSE {Append(l, e) : l \in EntryListsOfLen(n - 1), e \in AnalysisEntries}

\* JSON values a grading reply can parse to.  `empty' tells whether Python
\* treats the value as false; an object carries its `analyses' member
\* (absent, something that is not a list, or a list of entries).
GradeJson(type, empty, kind, entries) ==
    [t |-> type, empty |-> empty, analyses |-> [kind |-> kind, entries |-> entries]]

\* The values considered, the lists of entries being at most n long.
GradeJsonValues(n) ==
    {GradeJson(type, e, "absent", <<>>) : type \in {"array", "number"}, e \in BOOLEAN}
    \cup {GradeJson("null", TRUE, "absent", <<>>),
          GradeJson("object", TRUE, "absent", <<>>),
          GradeJson("object", FALSE, "absent", <<>>),
          GradeJson("object", FALSE, "not_list", <<>>)}
    \cup {GradeJson("object", FALSE, "list", l) :
             l \in UNION {EntryListsOfLen(k) : k \in 0..n}}

\* The text of a grading reply: exactly a JSON document, or prose without a
\* JSON object in it.
GradeTexts(n) ==
    [form : {"json"}, value : GradeJsonValues(n)]
    \cup [form : {"prose"}, value : {GradeJson("null", TRUE, "absent", <<>>)}]

\* The outcomes of the grading request for which _call_llm returns None.
UnavailableGradings ==
    {"endpoint_not_configured", "token_failure", "http_error", "timeout", "body_not_json",
     "no_choices"}

\* candidate.get("trial_id") in {trial["id"], str(trial["id"]), trial.get("nct_id")}
NamesTrial(entry, trial) ==
    /\ entry.is_object
    /\ entry.trial_id # <<>>
    /\ entry.trial_id[1].form \in TrialIdForms
    /\ entry.trial_id[1].id = trial.id

\* `selected = candidate if isinstance(candidate, dict) else None' followed
\* by `if not selected': the popped entry is used when it is an object other
\* than {}.
PoppedEntryUsed(entry) == entry.is_object /\ ~entry.empty

\* The analysis llm_grade_trials builds from the entry selected for a trial.
ReconciledAnalysis(trial, selected) ==
    [trial_id |-> trial.id, trial_title |-> trial.title,
     pico_grade |-> LowerGrade[IF selected.pico_grade = <<>> THEN "medium"
                               ELSE selected.pico_grade[1]]]

\* The loop of llm_grade_trials over trials[i..]; `payload' is
\* analyses_payload, which pop(0) shortens as the loop goes.
RECURSIVE GradeLoop(_, _, _)
GradeLoop(trials, i, payload) ==
    IF i > Len(trials) THEN <<>>
    ELSE
    LET trial == trials[i]
        named == {k \in 1..Len(payload) : NamesTrial(payload[k], trial)}
        by_id == IF named = {} THEN <<>>
                 ELSE <<payload[CHOOSE k \in named : \A h \in named : k <= h]>>
        popped == by_id = <<>> /\ payload # <<>>
        selected == IF by_id # <<>> THEN by_id
                    ELSE IF popped /\ PoppedEntryUsed(Head(payload)) THEN <<Head(payload)>>
                    ELSE <<>>
        rest == IF popped THEN Tail(payload) ELSE payload
    IN  <<IF selected = <<>> THEN SyntheticLlmGrade(trial)
          ELSE ReconciledAnalysis(trial, selected[1])>>
        \o GradeLoop(trials, i + 1, rest)

\* The same loop, telling for each trial which entry of the model's list (by
\* its position in the list as the model sent it, 0 for none) was selected
\* and how; `popped' counts the entries pop(0) has removed so far.
RECURSIVE EntrySelections(_, _, _, _)
EntrySelections(trials, i, payload, popped) ==
    IF i > Len(trials) THEN <<>>
    ELSE
    LET named == {k \in 1..Len(payload) : NamesTrial(payload[k], trials[i])}
    IN  IF named # {}
        THEN <<[entry |-> popped + (CHOOSE k \in named : \A h \in named : k <= h),
                how |-> "trial_id"]>>
             \o EntrySelections(trials, i + 1, payload, popped)
        ELSE IF payload # <<>>
        THEN <<IF PoppedEntryUsed(Head(payload))
               THEN [entry |-> popped + 1, how |-> "position"]
               ELSE [entry |-> 0, how |-> "none"]>>
             \o EntrySelections(trials, i + 1, Tail(payload), popped + 1)
        ELSE <<[entry |-> 0, how |-> "none"]>>
             \o EntrySelections(trials, i + 1, payload, popped)

\* analyze_evidence: the evidence pack.
AnalyzeEvidence(state) ==
    [analyses |-> IF state.analyses # <<>> /\ state.analyses[1] # <<>>
                  THEN state.analyses[1]
                  ELSE HeuristicAnalyses(state.trial_matches),
     trials |-> state.trial_matches]

\* evidence_search: the response for a graph run that raised `exc' or ended
\* with `state'.
EvidenceSearch(exc, state) ==
    IF exc = "RuntimeError" THEN [status |-> 502, evidence_pack |-> <<>>]
    ELSE IF exc # "None" THEN [status |-> 500, evidence_pack |-> <<>>]
    ELSE [status |-> 200, evidence_pack |-> state.evidence_pack]

EmptyEvidenceState == [trial_matches |-> <<>>, analyses |-> <<>>, evidence_pack |-> <<>>]

NoReply == [kind |-> "not_asked", text |-> [form |-> "prose",
                                            value |-> GradeJson("null", TRUE, "absent", <<>>)]]

NoEvidenceResponse == [status |-> 0, evidence_pack |-> <<>>]

IdleEvidence ==
    /\ ev_pc = "done"
    /\ ev_state = EmptyEvidenceState
    /\ ev_raised = "None"
    /\ ev_reply = NoReply
    /\ ev_response = NoEvidenceResponse

\* The candidate lists the registry returns in the grading runs.
GradeTrialLists ==
    {<<>>, <<Trial1>>, <<Trial3, Trial4>>, <<Trial6, Trial4, Trial1>>}

GradeContexts == {c \in PatientContexts : c.age = 58 /\ c.egfr = 44 /\ c.geo \in {<<>>, <<250>>}}

\* Node analyze_evidence runs.
AnalyzeEvidenceNode ==
    /\ ev_pc = "analyze_evidence"
    /\ ev_state' = [ev_state EXCEPT !.evidence_pack = <<AnalyzeEvidence(ev_state)>>]
    /\ ev_pc' = "END"
    /\ UNCHANGED <<ev_raised, ev_reply, ev_response>>

\* evidence_search answers the caller.
EvidenceRespond ==
    /\ ev_pc \in {"END", "raised"}
    /\ ev_response' = EvidenceSearch(ev_raised, ev_state)
    /\ ev_pc' = "done"
    /\ UNCHANGED <<ev_state, ev_raised, ev_reply>>

IdleCred ==
    /\ now = StartTime
    /\ configured = [d \in Domains |-> Settings]
    /\ token_cache = [d \in Domains |-> EmptyTokenCache]
    /\ token_log = <<>>

IdleSel ==
    /\ sel_tools = <<>>
    /\ sel_keywords = <<>>
    /\ sel_result = NotRun

InitSel ==
    /\ sel_tools \in ToolLists
    /\ sel_keywords \in KeywordLists
    /\ sel_result = NotRun

\* select_tool is called on the given tools and keywords.
SelectTool ==
    /\ ~sel_result.ran
    /\ sel_result' = [ran |-> TRUE, index |-> FindBestMcpTool(sel_tools, sel_keywords)]
    /\ UNCHANGED <<sel_tools, sel_keywords>>

(***************************************************************************)
(* Tool directory: list_tools with its per-endpoint cache.                 *)
(***************************************************************************)
CacheKeys == {"ehr", "trial_registry"}

ToolsCacheWindow == 300

EmptyToolsCache == [tools |-> <<>>, timestamp |-> 0]

EhrCatalog == <<ToolGetPatientSummary, ToolGetLabs>>

TrialCatalog == <<ToolGetTrials>>

Catalogs == {<<>>, EhrCatalog, TrialCatalog}

FailedListings == {"http_error", "error_payload"}

\* What the gateway can answer to one tools/list request.
ListResponses ==
    [kind : FailedListings, tools : {<<>>}] \cup [kind : {"ok"}, tools : Catalogs]

\* The token endpoint's answers considered while listing tools: a failure
\* for which the token function returns None, and a token.
ListTokenResponses ==
    {r \in TokenResponses :
        \/ r.kind = "network_error"
        \/ r.kind = "ok" /\ r.access_token = "tok1" /\ r.expires_in = <<120>>}

\* Mutant of ToolsCacheFresh: the window is confused with the token buffer.
ToolsCacheFreshShortWindow(entry, t) ==
    entry.tools # <<>> /\ t - entry.timestamp < TokenBuffer

\* Mutant of ToolsCacheFresh: an entry exactly as old as the window is still
\* served.
ToolsCacheFreshInclusive(entry, t) ==
    entry.tools # <<>> /\ t - entry.timestamp <= ToolsCacheWindow

\* cache_entry["tools"] and (time.time() - cache_entry["timestamp"]) < 300
ToolsCacheFresh(entry, t) == entry.tools # <<>> /\ t - entry.timestamp < ToolsCacheWindow

(***************************************************************************)
(* Care-plan orchestration pipeline (care-plan-agent/app.py).  A function  *)
(* that sends requests is given what has come back so far: `listed' is <<>>*)
(* until _list_mcp_tools has returned and <<tools>> afterwards, `called'   *)
(* is <<>> until the function's request has returned and <<reply>>         *)
(* afterwards.  Its value tells in `next' what it does next: the call it   *)
(* makes, or "done" with what it raises or returns.                        *)
(***************************************************************************)
CarePlanUrls == {"EHR_MCP_URL", "API_MANAGER_CHAT_ENDPOINT"}

EvidenceUrls == {"TRIAL_REGISTRY_MCP_URL", "API_MANAGER_CHAT_ENDPOINT"}

Urls == CarePlanUrls \cup EvidenceUrls

Nodes == <<"fetch_patient_summary", "call_evidence_agent", "llm_plan_card", "assemble_plan">>

\* keywords=["patient", "summary", "get"]
PatientSummaryKeywords == <<Str.patient, Str.summary, Str.get>>

\* The lifetime of a token that is short enough for the token to have
\* expired, by the 60 s buffer, when the request's next call asks for it.
ShortLifetime == 30

\* The token endpoint's answers considered during a request: a failure the
\* token function catches, one it does not catch, a token without
\* expires_in and a token that lives ShortLifetime seconds.
RunTokenResponses ==
    {r \in TokenResponses :
        \/ r.kind \in {"network_error", "body_not_object"}
        \/ r.kind = "ok" /\ r.access_token = "tok1" /\ r.expires_in \in {<<>>, <<ShortLifetime>>}}

\* The token endpoint's answers to a call of another request.
OtherTokenResponses ==
    {r \in TokenResponses :
        \/ r.kind = "network_error"
        \/ r.kind = "ok" /\ r.access_token = "tok2" /\ r.expires_in = <<>>}

\* The tools/list answers considered during a run.
RunListResponses ==
    {[kind |-> "http_error", tools |-> <<>>],
     [kind |-> "ok", tools |-> <<>>],
     [kind |-> "ok", tools |-> EhrCatalog],
     [kind |-> "ok", tools |-> <<ToolPostOrdersMedication>>]}

\* What a tools/call request for the patient summary can come back with.
\* _call_mcp_tool returns None for the first four.
FailedToolCalls == {"http_error", "body_not_json", "error_payload", "no_result"}

\* _call_mcp_tool returned None because the token function did; `sent'
\* tells whether the token endpoint was asked.
NoToken(sent) == [kind |-> "no_token", sent |-> sent]

\* The token function raised TypeError.  _list_mcp_tools, _call_mcp_tool
\* and _call_llm call it before their try block, so the exception leaves
\* them and the node that called them.
TokenRaised == [kind |-> "token_raised", sent |-> TRUE]

\* The call of a node ended with the token function's exception.
TokenFunctionRaised(called) == called # <<>> /\ called[1].kind = TokenRaised.kind

\* The shapes of a returned result: no usable content list, a content list
\* whose first item is not an object, text that is not JSON, text that is
\* JSON but not an object, and a patient record.
ToolResults == {"no_content", "content_not_object", "text_not_json", "text_not_object", "patient"}

\* The patient records the EHR gateway can return: complete; without a date
\* of birth; without a lastEgfr member; with lastEgfr = {"value": null}; and
\* records _transform_mcp_to_python_format cannot transform (say gender is
\* null, so that .lower() raises) and returns as they came: one whose
\* problems and medications are lists of objects, as the gateway sends
\* them, one whose problems and medications are empty or lists of strings,
\* and one whose demographics member is a list.
UntransformableRecords ==
    {"untransformable", "untransformable_strings", "untransformable_demographics"}

PatientRecords ==
    {"complete", "no_birth_date", "no_egfr", "null_egfr"} \cup UntransformableRecords

ToolCallResponses ==
    [kind : FailedToolCalls \cup (ToolResults \ {"patient"}), record : {"complete"}]
    \cup [kind : {"patient"}, record : PatientRecords]

SampleAge == 58
SampleEgfr == 44

\* _transform_mcp_to_python_format: what fetch_patient_summary reads of the
\* value returned: demographics.get("age") and last_egfr (<<>> for None),
\* whether demographics is an object and whether problems and medications
\* are lists of strings.  A record that cannot be transformed comes back as
\* it was, with no demographics.age and no last_egfr.
TransformMcpToPythonFormat(record) ==
    IF record \in UntransformableRecords
    THEN [age |-> <<>>, last_egfr |-> <<>>,
          demographics_object |-> record # "untransformable_demographics",
          strings |-> record = "untransformable_strings"]
    ELSE [age |-> IF record = "no_birth_date" THEN <<0>> ELSE <<SampleAge>>,
          last_egfr |-> IF record = "no_egfr" THEN <<0>>
                        ELSE IF record = "null_egfr" THEN <<>>
                        ELSE <<SampleEgfr>>,
          demographics_object |-> TRUE, strings |-> TRUE]

\* The time one requests.post takes.
PostDelay == 10

NoException == "None"

\* fetch_patient_summary: the call it makes next, or the exception raised
\* (if any) and the patient summary returned.  A TypeError of the token
\* function, raised inside _list_mcp_tools or _call_mcp_tool, is raised
\* before the function's own try block is entered.  demographics that is not an
\* object makes demographics.get raise AttributeError, and problems or
\* medications that are not lists of strings make ", ".join raise
\* TypeError; `except Exception' turns both into RuntimeError.
FetchPatientSummary(urls, listed, called) ==
    LET out(exc, why, summary) ==
            [next |-> "done", raised |-> exc, reason |-> why, summary |-> summary]
        ask(next) ==
            [next |-> next, raised |-> NoException, reason |-> "not_run", summary |-> <<>>]
        record == TransformMcpToPythonFormat(called[1].record)
    IN  IF "EHR_MCP_URL" \notin urls
        THEN out("RuntimeError", "gateway_not_configured", <<>>)
        ELSE IF TokenFunctionRaised(called)
        THEN out("TypeError", "token_raised", <<>>)
        ELSE IF listed = <<>> THEN ask("list_tools")
        ELSE IF listed[1] = <<>>
        THEN out("RuntimeError", "no_tools_discovered", <<>>)
        ELSE IF FindBestMcpTool(listed[1], PatientSummaryKeywords) = 0
        THEN out("RuntimeError", "no_tool_found", <<>>)
        ELSE IF called = <<>> THEN ask("call_tool")
        ELSE IF called[1].kind = "no_token"
        THEN out("RuntimeError", "token_failure", <<>>)
        ELSE IF called[1].kind \in FailedToolCalls
        THEN out("RuntimeError", "upstream_error", <<>>)
        ELSE IF called[1].kind = "no_content"
        THEN out("RuntimeError", "malformed_response", <<>>)
        ELSE IF called[1].kind = "content_not_object"
        THEN out("AttributeError", "malformed_response", <<>>)
        ELSE IF called[1].kind \in {"text_not_json", "text_not_object"}
        THEN out("RuntimeError", "malformed_response", <<>>)
        ELSE IF ~record.demographics_object \/ ~record.strings
        THEN out("RuntimeError", "unprocessable_record", <<>>)
        ELSE out(NoException, "ok", <<[age |-> record.age, last_egfr |-> record.last_egfr]>>)

\* What POST /agents/evidence/search can come back with.
EvidenceResponses ==
    {"network_error", "http_error", "body_not_json", "body_not_object", "no_pack", "pack"}

EmptyPack == [trials |-> 0, analyses |-> 0]

SamplePack == [trials |-> 2, analyses |-> 2]

\* call_evidence_agent: the request it sends next, or the exception raised
\* (if any), whether the request was sent, and the evidence pack returned.
CallEvidenceAgent(summary, called) ==
    LET out(exc, why, sent, pack) ==
            [next |-> "done", raised |-> exc, reason |-> why, sent |-> sent, pack |-> pack]
    IN  IF summary.age = <<>> \/ summary.last_egfr = <<>>
        THEN out("RuntimeError", "validation", FALSE, <<>>)
        ELSE IF called = <<>>
        THEN [next |-> "post", raised |-> NoException, reason |-> "not_run", sent |-> TRUE,
              pack |-> <<>>]
        ELSE IF called[1] \in {"network_error", "http_error"}
        THEN out("RuntimeError", "upstream_error", TRUE, <<>>)
        ELSE IF called[1] = "body_not_json"
        THEN out("JSONDecodeError", "malformed_response", TRUE, <<>>)
        ELSE IF called[1] = "body_not_object"
        THEN out("AttributeError", "malformed_response", TRUE, <<>>)
        ELSE out(NoException, "ok", TRUE,
                 <<IF called[1] = "no_pack" THEN EmptyPack ELSE SamplePack>>)

\* JSON values a model reply can parse to.  `empty' tells whether Python
\* treats the value as false (null, 0, "", [], {}); an object carries its
\* plan_card member (<<>> when absent), its recommendation, its notes and
\* its trial_matches.
JsonValue(type, empty, plan_card, recommendation, notes) ==
    [t |-> type, empty |-> empty, plan_card |-> plan_card,
     recommendation |-> recommendation, notes |-> notes, trial_matches |-> <<>>]

JsonNull == JsonValue("null", TRUE, <<>>, <<>>, <<>>)

JsonScalars == {JsonValue(type, e, <<>>, <<>>, <<>>) : type \in {"number", "string"}, e \in BOOLEAN}

JsonArrays == {JsonValue("array", e, <<>>, <<>>, <<>>) : e \in BOOLEAN}

\* "trial_matches": [{"nct_id": "NCT1"}, {"title": "Trial C"}]: a trial the
\* first trial of an evidence pack is matched with, and another one.
ReplyTrialMatches ==
    [t |-> "array", v |-> <<>>,
     items |-> <<[t |-> "object", title |-> <<>>,
                  nct_id |-> <<[t |-> "string", v |-> Str.NCT1, items |-> <<>>]>>,
                  site_distance_km |-> <<>>, status |-> <<>>, why_match |-> <<>>,
                  summary |-> <<>>],
                 [t |-> "object",
                  title |-> <<[t |-> "string", v |-> Str.TrialC, items |-> <<>>]>>,
                  nct_id |-> <<>>, site_distance_km |-> <<>>, status |-> <<>>,
                  why_match |-> <<>>, summary |-> <<>>]>>]

\* Plan-card objects: {}, {"recommendation": "X"} and {"recommendation":
\* "X", "trial_matches": [...]}.
PlanObjects ==
    {JsonValue("object", TRUE, <<>>, <<>>, <<>>),
     JsonValue("object", FALSE, <<>>, <<[t |-> "string", v |-> <<"X">>, items |-> <<>>]>>,
               <<>>),
     [JsonValue("object", FALSE, <<>>, <<[t |-> "string", v |-> <<"X">>, items |-> <<>>]>>,
                <<>>) EXCEPT !.trial_matches = <<ReplyTrialMatches>>]}

\* Replies {"plan_card": ...} with an object, a string or an array as the
\* plan card, with or without top-level notes.
WrappedObjects ==
    {JsonValue("object", FALSE, <<pc_value>>, <<>>, notes) :
        pc_value \in PlanObjects \cup {JsonValue("string", FALSE, <<>>, <<>>, <<>>)},
        notes \in {<<>>, <<[t |-> "string", v |-> <<"n", "o", "t", "e">>,
                            items |-> <<>>]>>}}

JsonObjects == PlanObjects \cup WrappedObjects

JsonValues == {JsonNull} \cup JsonScalars \cup JsonArrays \cup JsonObjects

\* The text of a model reply: exactly a JSON document, prose around a JSON
\* object, prose without braces, or prose with braces that hold no JSON.
LlmTexts ==
    [form : {"json"}, value : JsonValues]
    \cup [form : {"prose_around_object"}, value : JsonObjects]
    \cup [form : {"prose", "prose_bad_braces"}, value : {JsonNull}]

\* _extract_json_block: <<>> for None, else the value parsed.
ExtractJsonBlock(text) ==
    IF text.form \in {"json", "prose_around_object"} THEN <<text.value>> ELSE <<>>

\* What the chat endpoint can come back with: failures for which _call_llm
\* returns None, a null content, an empty content, and a content text.
FailedChats == {"http_error", "timeout", "body_not_json", "no_choices"}

ChatResponses ==
    [kind : FailedChats \cup {"null_content", "empty_content"},
     text : {[form |-> "prose", value |-> JsonNull]}]
    \cup [kind : {"content"}, text : LlmTexts]

\* _call_llm: the request it makes next, or the exception raised (if any)
\* and the content returned (<<>> for None).  _get_access_token() is called
\* before the try block, so its TypeError leaves the function; len(content)
\* on a null content raises TypeError, which the function does not catch.
CallLlm(urls, called) ==
    LET out(exc, raw, why) == [next |-> "done", raised |-> exc, raw |-> raw, outcome |-> why]
    IN  IF "API_MANAGER_CHAT_ENDPOINT" \notin urls
        THEN out(NoException, <<>>, "endpoint_not_configured")
        ELSE IF called = <<>>
        THEN [next |-> "chat", raised |-> NoException, raw |-> <<>>, outcome |-> "not_run"]
        ELSE IF TokenFunctionRaised(called)
        THEN out("TypeError", <<>>, "token_exchange_raised")
        ELSE IF called[1].kind = "no_token"
        THEN out(NoException, <<>>,
                 IF called[1].sent THEN "token_exchange_failed"
                 ELSE "credentials_not_configured")
        ELSE IF called[1].kind \in FailedChats
        THEN out(NoException, <<>>, "http_error_or_timeout")
        ELSE IF called[1].kind = "null_content"
        THEN out("TypeError", <<>>, "null_content")
        ELSE IF called[1].kind = "empty_content"
        THEN out(NoException, <<>>, "empty_content")
        ELSE out(NoException, <<called[1].text>>, "content")

(***************************************************************************)
(* Evidence agent: retrieval of the registry's trials and model grading    *)
(* (evidence-agent/evidence_agent.py, evidence_agent_mcp.py).              *)
(***************************************************************************)
\* keywords=["get", "trials", "list", "all"]
TrialKeywords == <<Str.get, Str.trials, Str.list, Str.all>>

\* The tools/list answers of the trial registry considered.
RegistryListResponses ==
    {[kind |-> "http_error", tools |-> <<>>],
     [kind |-> "ok", tools |-> <<>>],
     [kind |-> "ok", tools |-> TrialCatalog],
     [kind |-> "ok", tools |-> <<ToolPostOrdersMedication>>]}

\* What a tools/call request for the trials can come back with: the
\* failures of the call; a result flagged isError whose text is a message,
\* not JSON; and, flagged "isError": false, a result whose content list is
\* empty or absent, one whose first content item is a string, one whose
\* text is not JSON, one whose text is a JSON string, the object
\* {"totalCount": n, "trials": [...]}, and the list of trials.
RegistryAnswers(lists) ==
    [kind : FailedToolCalls
            \cup {"is_error", "no_content", "content_not_object", "text_not_json",
                  "unexpected_format"},
     trials : {<<>>}]
    \cup [kind : {"wrapped", "trials"}, trials : lists]

\* simple_tools: the tools without required parameters, or all the tools
\* when every tool has one.
SimpleTools(tools) ==
    LET simple == SelectSeq(tools, LAMBDA tool : tool.required = <<>>) IN
    IF simple = <<>> THEN tools ELSE simple

\* fetch_trials: the call it makes next, or the exception raised (if any),
\* the trials retrieved and the matches returned.  evidence_search builds
\* the context with "geo": None when the request has no geo, and
\* context.get("geo", {}).get("radius_km") then raises AttributeError
\* before anything is sent.  The isError flag of the result is not read.
FetchTrials(context, urls, listed, called) ==
    LET out(exc, trials) ==
            [next |-> "done", raised |-> exc, trials |-> trials,
             matches |-> FetchTrialsScorer(context, trials)]
        fail(exc) == [next |-> "done", raised |-> exc, trials |-> <<>>, matches |-> <<>>]
        ask(next) == [next |-> next, raised |-> "None", trials |-> <<>>, matches |-> <<>>]
    IN  IF context.geo = <<>> THEN fail("AttributeError")
        ELSE IF "TRIAL_REGISTRY_MCP_URL" \notin urls THEN fail("RuntimeError")
        ELSE IF TokenFunctionRaised(called) THEN fail("TypeError")
        ELSE IF listed = <<>> THEN ask("list_tools")
        ELSE IF listed[1] = <<>> THEN fail("RuntimeError")
        ELSE IF FindBestMcpTool(SimpleTools(listed[1]), TrialKeywords) = 0
        THEN fail("RuntimeError")
        ELSE IF called = <<>> THEN ask("call_tool")
        ELSE IF called[1].kind \in FailedToolCalls
                                   \cup {"no_token", "is_error", "no_content",
                                         "text_not_json", "unexpected_format"}
        THEN fail("RuntimeError")
        ELSE IF called[1].kind = "content_not_object" THEN fail("AttributeError")
        ELSE out("None", called[1].trials)

\* An item of a result's content list, as generate_evidence_pack_mcp reads
\* it when it takes it for a trial: no key of a trial is present (id 0 and
\* title <<>> stand for None).
ContentItem ==
    [id |-> 0, title |-> <<>>, condition |-> <<>>, eligibilitySummary |-> <<>>,
     eligibility_summary |-> <<>>, distance |-> <<>>, site_distance_km |-> <<>>]

\* fetch_trials_via_mcp: the call it makes next, or the value returned:
\* whether iterating over it gives objects, and those objects.  [] is
\* returned when the client is not configured, when call_tool returns None
\* and when the result is flagged isError; the content list is returned
\* when it is empty, when its first item has no text and when the text is
\* not JSON; otherwise whatever the text parses to.
FetchTrialsViaMcp(urls, called) ==
    LET out(objects, trials) == [next |-> "done", objects |-> objects, trials |-> trials]
    IN  IF "TRIAL_REGISTRY_MCP_URL" \notin urls THEN out(TRUE, <<>>)
        ELSE IF called = <<>>
        THEN [next |-> "call_tool", objects |-> TRUE, trials |-> <<>>]
        ELSE IF called[1].kind \in FailedToolCalls \cup {"no_token", "is_error", "no_content"}
        THEN out(TRUE, <<>>)
        ELSE IF called[1].kind = "text_not_json" THEN out(TRUE, <<ContentItem>>)
        ELSE IF called[1].kind \in {"content_not_object", "unexpected_format", "wrapped"}
        THEN out(FALSE, <<>>)
        ELSE out(TRUE, called[1].trials)

\* generate_evidence_pack_mcp: the call it makes next, or the exception
\* raised (if any), the trials retrieved, the trials scored, the top
\* matches and their analyses.  trial.get on something that is not an
\* object raises AttributeError.
GenerateEvidencePackMcp(context, urls, called) ==
    LET fetched == FetchTrialsViaMcp(urls, called)
        matches == McpScorer(context, fetched.trials)
        out(next, exc, trials, candidates, top) ==
            [next |-> next, raised |-> exc, trials |-> trials, candidates |-> candidates,
             matches |-> top, analyses |-> McpAnalyses(top)]
    IN  IF fetched.next # "done" THEN out(fetched.next, "None", <<>>, <<>>, <<>>)
        ELSE IF ~fetched.objects THEN out("done", "AttributeError", <<>>, <<>>, <<>>)
        ELSE out("done", "None", fetched.trials, McpCandidates(fetched.trials), matches)

\* What the chat endpoint can come back with for the grading request, the
\* model's list of analyses being at most n long.
GradeChatResponses(n) ==
    [kind : FailedChats \cup {"null_content", "empty_content"}, text : {NoReply.text}]
    \cup [kind : {"content"}, text : GradeTexts(n)]

\* llm_grade_trials: the request it makes next, or the exception raised (if
\* any) and the partial update returned; analyses is <<>> when the update
\* has no `analyses' key.  `reply' is what came of the request.
LlmGradeTrials(trials, urls, called) ==
    LET call == CallLlm(urls, called)
        reply == IF called = <<>>
                 THEN [kind |-> "endpoint_not_configured", text |-> NoReply.text]
                 ELSE IF TokenFunctionRaised(called)
                 THEN [kind |-> "token_raised", text |-> NoReply.text]
                 ELSE IF called[1].kind = "no_token"
                 THEN [kind |-> "token_failure", text |-> NoReply.text]
                 ELSE called[1]
        out(next, exc, analyses) ==
            [next |-> next, raised |-> exc, analyses |-> analyses, reply |-> reply]
        text == call.raw[1]
        \* parsed = _extract_json_block(raw) or {}
        parsed == IF text.form = "json" /\ ~text.value.empty
                  THEN text.value
                  ELSE GradeJson("object", TRUE, "absent", <<>>)
    IN  IF trials = <<>>
        THEN [next |-> "done", raised |-> "None", analyses |-> <<>>, reply |-> NoReply]
        ELSE IF call.next # "done" THEN out(call.next, "None", <<>>)
        ELSE IF call.raised # "None" THEN out("done", call.raised, <<>>)
        ELSE IF call.raw = <<>> THEN out("done", "None", <<>>)
        \* list(parsed.keys()) on a list or a number
        ELSE IF parsed.t # "object" THEN out("done", "AttributeError", <<>>)
        ELSE IF parsed.analyses.kind # "list" THEN out("done", "None", <<>>)
        ELSE out("done", "None", <<GradeLoop(trials, 1, parsed.analyses.entries)>>)

(***************************************************************************)
(* Merging a model draft into the heuristic plan card                      *)
(* (care-plan-agent/app.py, _merge_plan_cards).                            *)
(*                                                                         *)
(* A JSON value is a record with its type t; a string or a number carries  *)
(* its text v as a tuple of characters, an array carries its items, and an *)
(* object carries its members, each <<>> when the key is absent and <<x>>  *)
(* when the key holds x.                                                   *)
(***************************************************************************)
Scalar(type, text) == [t |-> type, v |-> text, items |-> <<>>]

StringValue(text) == Scalar("string", text)

NumberValue(text) == Scalar("number", text)

BoolValue(b) == Scalar("bool", IF b THEN <<"T", "r", "u", "e">> ELSE <<"F", "a", "l", "s", "e">>)

NullValue == Scalar("null", <<>>)

ListValue(items) == [t |-> "array", v |-> <<>>, items |-> items]

\* dict.get(key): None when the key is absent.
Get(member) == IF member = <<>> THEN NullValue ELSE member[1]

\* bool(value); the objects of the model are never empty.
Truthy(value) ==
    CASE value.t = "null" -> FALSE
      [] value.t = "string" -> value.v # <<>>
      [] value.t = "number" -> value.v # <<"0">>
      [] value.t = "bool" -> value.v = BoolValue(TRUE).v
      [] value.t = "array" -> value.items # <<>>
      [] OTHER -> TRUE

\* a or b
Or(a, b) == IF Truthy(a) THEN a ELSE b

\* str(value) of a string, a number, a boolean or None.
StrText(value) == IF value.t = "null" THEN <<"N", "o", "n", "e">> ELSE value.v

\* isinstance(value, str)
IsStr(value) == value.t = "string"

\* isinstance(value, dict)
IsDict(value) == value.t = "object"

\* isinstance(value, (int, float)); bool is a subclass of int.
IsNumber(value) == value.t \in {"number", "bool"}

\* The key is omitted for None (exclude_none, or a key never set).
OmitNone(value) == IF value.t = "null" THEN <<>> ELSE <<value>>

DigitChars == {"0", "1", "2", "3", "4", "5", "6", "7", "8", "9"}

\* The text is a plain decimal integer.
IsIntegerText(text) == text # <<>> /\ \A i \in 1..Len(text) : text[i] \in DigitChars

\* The text reads as a number: digits around at most one point.
IsNumberText(text) ==
    LET points == {i \in 1..Len(text) : text[i] = "."} IN
    /\ Cardinality(points) <= 1
    /\ Len(text) > Cardinality(points)
    /\ \A i \in (1..Len(text)) \ points : text[i] \in DigitChars

\* int(due) of a number or a boolean: the digits before the point.
IntText(value) ==
    IF value.t = "bool" THEN (IF Truthy(value) THEN <<"1">> ELSE <<"0">>)
    ELSE IF \E i \in 1..Len(value.v) : value.v[i] = "."
    THEN SubSeq(value.v, 1, (CHOOSE i \in 1..Len(value.v) : value.v[i] = ".") - 1)
    ELSE value.v

\* float(value) of a number, a boolean or a string that reads as a number,
\* as Python writes it: with a point.
FloatText(value) ==
    IF value.t = "bool" THEN IntText(value) \o <<".", "0">>
    ELSE IF \E i \in 1..Len(value.v) : value.v[i] = "." THEN value.v
    ELSE value.v \o <<".", "0">>

\* _coerce_list
CoerceList(value) ==
    IF value.t = "null" THEN <<>>
    ELSE IF value.t = "array" THEN value.items
    ELSE <<value>>

\* [str(item) for item in _coerce_list(value)]
StrItems(value) ==
    LET items == CoerceList(value) IN
    ListValue([i \in 1..Len(items) |-> StringValue(StrText(items[i]))])

MergeTextDraftOnly(member, fallback) == member

\* isinstance(primary.get(key), str): the draft's text, else the heuristic's.
MergeText(member, fallback) == IF IsStr(Get(member)) THEN member ELSE fallback

MergeStrListDraftOnly(member, fallback) ==
    IF member = <<>> THEN <<ListValue(<<>>)>> ELSE <<StrItems(member[1])>>

\* if primary.get(key): the draft's items as strings, else the heuristic's.
MergeStrList(member, fallback) ==
    IF Truthy(Get(member)) THEN <<StrItems(member[1])>> ELSE fallback

\* if primary.get(optional_key): the draft's value as it is.
MergeOptional(member, fallback) == IF Truthy(Get(member)) THEN member ELSE fallback

\* CitationModel: type is a string; id and org are strings or None; year is
\* an integer, a string of digits, or None.
CitationModelValid(type, id, org, year) ==
    /\ IsStr(type)
    /\ id.t \in {"string", "null"}
    /\ org.t \in {"string", "null"}
    /\ \/ year.t = "null"
       \/ year.t \in {"number", "string"} /\ IsIntegerText(year.v)

\* One citation of the draft: whether CitationModel accepts it and the entry
\* .dict(exclude_none=True) gives.
CitationEntry(citation) ==
    LET ctype == Or(Or(Get(citation.type), Get(citation.category)),
                    StringValue(<<"R", "e", "f", "e", "r", "e", "n", "c", "e">>))
        type == StringValue(StrText(ctype))
        id == Or(Get(citation.id), Get(citation.title))
        org == Or(Get(citation.org), Get(citation.organization))
        year == Get(citation.year)
    IN  [valid |-> CitationModelValid(type, id, org, year),
         entry |-> [t |-> "object", type |-> <<type>>, id |-> OmitNone(id),
                    org |-> OmitNone(org),
                    year |-> IF year.t = "null" THEN <<>> ELSE <<NumberValue(year.v)>>]]

\* What a block that builds validated entries leaves: ValidationError when
\* an entry was rejected, the heuristic's member when no entry was built,
\* else the entries built.
BuiltEntries(built, fallback) ==
    IF \E i \in 1..Len(built) : ~built[i].valid
    THEN [raised |-> "ValidationError", value |-> fallback]
    ELSE IF built = <<>>
    THEN [raised |-> NoException, value |-> fallback]
    ELSE [raised |-> NoException,
          value |-> <<ListValue([i \in 1..Len(built) |-> built[i].entry])>>]

\* The entries built for the objects among the draft's citations.
CitationEntries(objects) == [i \in 1..Len(objects) |-> CitationEntry(objects[i])]

\* The citations block: the exception raised (if any) and the member of the
\* merged card.
MergeCitations(member, fallback) ==
    IF ~Truthy(Get(member)) THEN [raised |-> NoException, value |-> fallback]
    ELSE BuiltEntries(CitationEntries(SelectSeq(CoerceList(member[1]), IsDict)), fallback)

\* str(entry.get(key, "")).lower()
MatchKey(member) == Lower(IF member = <<>> THEN <<>> ELSE StrText(member[1]))

\* Two keys are the same and not empty.
SameKey(key, cand_key) == key # <<>> /\ cand_key # <<>> /\ cand_key = key

\* The condition of _pop_candidate: same NCT id or same title, ignoring case,
\* an empty key matching nothing.
SameTrial(base, candidate) ==
    \/ SameKey(MatchKey(base.nct_id), MatchKey(candidate.nct_id))
    \/ SameKey(MatchKey(base.title), MatchKey(candidate.title))

\* The loop of _pop_candidate from position idx on: the index of the first
\* draft entry for the trial of `base', 0 when there is none.
RECURSIVE PopCandidateFrom(_, _, _)
PopCandidateFrom(base, primary_trials, idx) ==
    IF idx > Len(primary_trials) THEN 0
    ELSE IF SameTrial(base, primary_trials[idx]) THEN idx
    ELSE PopCandidateFrom(base, primary_trials, idx + 1)

\* _pop_candidate: the index of the entry popped, 0 for None.
PopCandidate(base, primary_trials) == PopCandidateFrom(base, primary_trials, 1)

\* list.pop(idx)
RemoveAt(seq, idx) == SubSeq(seq, 1, idx - 1) \o SubSeq(seq, idx + 1, Len(seq))

\* {}, what `_pop_candidate(base) or {}' gives when nothing was popped.
NoCandidate ==
    [t |-> "object", title |-> <<>>, nct_id |-> <<>>, site_distance_km |-> <<>>,
     status |-> <<>>, why_match |-> <<>>, summary |-> <<>>]

\* TrialMatchModel(...).dict(): the texts are strings or None, the distance
\* is a number, a string that reads as a number, or None.
TrialMatchModel(title, nct_id, site_distance_km, status, why_match) ==
    [valid |-> /\ \A x \in {title, nct_id, status, why_match} : x.t \in {"string", "null"}
               /\ \/ site_distance_km.t \in {"null", "number", "bool"}
                  \/ site_distance_km.t = "string" /\ IsNumberText(site_distance_km.v),
     entry |-> [t |-> "object", title |-> <<title>>, nct_id |-> <<nct_id>>,
                site_distance_km |->
                    <<IF site_distance_km.t \in {"number", "bool", "string"}
                      THEN NumberValue(FloatText(site_distance_km)) ELSE NullValue>>,
                status |-> <<status>>, why_match |-> <<why_match>>, summary |-> <<>>]]

\* The entry for a trial of the heuristic card, from it and the draft entry
\* popped for it.
MergedMatch(base, candidate) ==
    TrialMatchModel(
        Or(Get(candidate.title), Get(base.title)),
        Or(Get(candidate.nct_id), Get(base.nct_id)),
        IF IsNumber(Get(candidate.site_distance_km))
        THEN Get(candidate.site_distance_km) ELSE Get(base.site_distance_km),
        Or(Get(candidate.status), Get(base.status)),
        Or(Or(Or(Get(candidate.why_match), Get(candidate.summary)), Get(base.why_match)),
           Get(base.summary)))

\* The entry for a draft entry that no trial of the heuristic card popped.
AppendedMatch(candidate) ==
    TrialMatchModel(Get(candidate.title), Get(candidate.nct_id),
                    Get(candidate.site_distance_km), Get(candidate.status),
                    Or(Get(candidate.why_match), Get(candidate.summary)))

\* The loop over existing_matches, telling for each heuristic match `base'
\* the draft entries still in primary_trials when its turn came (`left') and
\* the index among them of the entry _pop_candidate popped (0 for None).
RECURSIVE Pairings(_, _)
PairingsStep(existing_matches, primary_trials, idx) ==
    <<[base |-> Head(existing_matches), left |-> primary_trials, idx |-> idx]>>
    \o Pairings(Tail(existing_matches),
                IF idx = 0 THEN primary_trials ELSE RemoveAt(primary_trials, idx))

Pairings(existing_matches, primary_trials) ==
    IF existing_matches = <<>> THEN <<>>
    ELSE PairingsStep(existing_matches, primary_trials,
                      PopCandidate(Head(existing_matches), primary_trials))

\* The loop over existing_matches: the entries in `combined' and the draft
\* entries left in primary_trials when it ends.
RECURSIVE MergeExisting(_, _, _)
RECURSIVE MergeExistingStep(_, _, _, _)
MergeExistingStep(existing_matches, primary_trials, combined, idx) ==
    MergeExisting(
        Tail(existing_matches),
        IF idx = 0 THEN primary_trials ELSE RemoveAt(primary_trials, idx),
        Append(combined,
               MergedMatch(Head(existing_matches),
                           IF idx = 0 THEN NoCandidate ELSE primary_trials[idx])))

MergeExisting(existing_matches, primary_trials, combined) ==
    IF existing_matches = <<>>
    THEN [combined |-> combined, primary_trials |-> primary_trials]
    ELSE MergeExistingStep(existing_matches, primary_trials, combined,
                           PopCandidate(Head(existing_matches), primary_trials))

\* The loop over the draft entries left: each is appended to `combined'.
AppendLeft(looped) ==
    looped.combined
    \o [i \in 1..Len(looped.primary_trials) |-> AppendedMatch(looped.primary_trials[i])]

\* The trial_matches block: the exception raised (if any) and the member of
\* the merged card.
MergeTrialMatches(member, fallback) ==
    IF ~Truthy(Get(member)) THEN [raised |-> NoException, value |-> fallback]
    ELSE BuiltEntries(
            AppendLeft(MergeExisting(SelectSeq(CoerceList(Get(fallback)), IsDict),
                                     SelectSeq(CoerceList(member[1]), IsDict), <<>>)),
            fallback)

\* One lab of the draft: <<>> when it is skipped, else the entry appended.
LabEntry(lab) ==
    LET name == Or(Get(lab.name), Get(lab.test))
        given == Get(lab.due_in_days)
        freq == Lower(StrText(Get(lab.frequency)))
        due == IF given.t = "null" /\ Truthy(Get(lab.frequency))
               THEN IF Contains(freq, <<"w", "e", "e", "k">>) THEN NumberValue(<<"7">>)
                    ELSE IF Contains(freq, <<"m", "o", "n", "t", "h">>)
                    THEN NumberValue(<<"3", "0">>)
                    ELSE IF Contains(freq, <<"d", "a", "y">>) THEN NumberValue(<<"1">>)
                    ELSE given
               ELSE given
    IN  IF Truthy(name) /\ IsNumber(due)
        THEN <<[t |-> "object", name |-> <<StringValue(StrText(name))>>, test |-> <<>>,
                due_in_days |-> <<NumberValue(IntText(due))>>, frequency |-> <<>>]>>
        ELSE <<>>

\* The labs appended for the draft's labs, in order.
RECURSIVE LabEntries(_)
LabEntries(labs) ==
    IF labs = <<>> THEN <<>> ELSE LabEntry(Head(labs)) \o LabEntries(Tail(labs))

\* {} as a medication order.
NoMedication ==
    [t |-> "object", name |-> <<>>, drug |-> <<>>, medication |-> <<>>, dose |-> <<>>,
     strength |-> <<>>, start_today |-> <<>>]

\* The medication of the merged orders, from the draft's medication object
\* and the heuristic's medication.
MergeMedication(med, fallback) ==
    LET name == Or(Or(Get(med.name), Get(med.drug)), Get(med.medication))
        dose == Or(Get(med.dose), Get(med.strength))
        start_today == Get(med.start_today)
        medication == IF fallback = <<>> THEN NoMedication ELSE fallback[1]
    IN  [medication EXCEPT
            !.name = IF Truthy(name) THEN <<name>> ELSE @,
            !.dose = IF Truthy(dose) THEN <<dose>> ELSE @,
            !.start_today = IF start_today.t = "bool" THEN <<start_today>> ELSE @]

\* {} as orders.
NoOrders == [t |-> "object", medication |-> <<>>, labs |-> <<>>]

\* The orders block: the member of the merged card.
MergeOrders(member, fallback) ==
    IF member = <<>> \/ ~IsDict(member[1]) THEN fallback
    ELSE LET primary_orders == member[1]
             merged_orders == IF fallback = <<>> THEN NoOrders ELSE fallback[1]
             labs == IF Truthy(Get(primary_orders.labs))
                     THEN LabEntries(SelectSeq(CoerceList(primary_orders.labs[1]), IsDict))
                     ELSE <<>>
         IN  <<[merged_orders EXCEPT
                  !.medication = IF IsDict(Get(primary_orders.medication))
                                 THEN <<MergeMedication(primary_orders.medication[1], @)>>
                                 ELSE @,
                  !.labs = IF labs # <<>> THEN <<ListValue(labs)>> ELSE @]>>

\* {} as a plan card.
EmptyCard ==
    [t |-> "object", recommendation |-> <<>>, rationale |-> <<>>, alternatives |-> <<>>,
     safety_checks |-> <<>>, orders |-> <<>>, citations |-> <<>>, trial_matches |-> <<>>,
     evidence_highlights |-> <<>>, llm_model |-> <<>>, generated_at |-> <<>>,
     notes |-> <<>>]

\* The card returned, given what the citations and the trial_matches blocks
\* left.
MergedCard(draft, fallback, citations, trial_matches) ==
    [raised |-> IF citations.raised # NoException THEN citations.raised
                ELSE trial_matches.raised,
     card |->
        [t |-> "object",
         recommendation |-> MergeText(draft.recommendation, fallback.recommendation),
         rationale |-> MergeText(draft.rationale, fallback.rationale),
         alternatives |-> MergeStrList(draft.alternatives, fallback.alternatives),
         safety_checks |-> MergeStrList(draft.safety_checks, fallback.safety_checks),
         orders |-> MergeOrders(draft.orders, fallback.orders),
         citations |-> citations.value,
         trial_matches |-> trial_matches.value,
         evidence_highlights |->
             MergeStrList(draft.evidence_highlights, fallback.evidence_highlights),
         llm_model |-> MergeOptional(draft.llm_model, fallback.llm_model),
         generated_at |-> MergeOptional(draft.generated_at, fallback.generated_at),
         notes |-> MergeOptional(draft.notes, fallback.notes)]]

\* primary or {}
DraftOrEmpty(primary) == IF primary.t = "null" THEN EmptyCard ELSE primary

\* _merge_plan_cards(primary, fallback): the exception raised (if any) and
\* the card returned; primary is None (NullValue) or a draft.
MergePlanCards(primary, fallback) ==
    MergedCard(DraftOrEmpty(primary), fallback,
               MergeCitations(DraftOrEmpty(primary).citations, fallback.citations),
               MergeTrialMatches(DraftOrEmpty(primary).trial_matches,
                                 fallback.trial_matches))

(***************************************************************************)
(* The objects _merge_plan_cards writes to.  A Python dict or list is an   *)
(* object: d[key] = x, l.pop(i) and l.append(x) change the object itself,  *)
(* for everyone who holds it.  A reference tells which object a name of    *)
(* the function is bound to: the object the argument `root' holds under    *)
(* the keys of `path', or, when `fresh', an object the function has made;  *)
(* a shallow copy is fresh and holds the members its original holds.       *)
(***************************************************************************)
Held(root, path) == [fresh |-> FALSE, root |-> root, path |-> path]

\* {}, [], a list comprehension, model.dict().
Made == [fresh |-> TRUE, root |-> "none", path |-> <<>>]

\* Mutant of DictCopy: the name is bound to the object itself.
NoCopy(ref) == ref

\* d.copy(): a new dict that holds the members of d.
DictCopy(ref) == [ref EXCEPT !.fresh = TRUE]

\* d.get(key, {}) and d[key]: the object d holds under the key, which a
\* copy of d holds as well; a new {} when the key is absent.
Member(ref, key, member) ==
    IF member = <<>> THEN Made ELSE Held(ref.root, Append(ref.path, key))

\* _coerce_list(value): the list itself, or a new list.
CoerceListRef(ref, value) == IF value.t = "array" THEN ref ELSE Made

\* [x for x in items if ...]: a new list, whatever list is gone through.
Comprehension(ref) == Made

\* target[key] = member
SetItem(target, key, member) ==
    [op |-> "set", target |-> target, key |-> key, idx |-> 0, member |-> member]

\* target.pop(idx), idx counted from 1.
ListPop(target, idx) ==
    [op |-> "pop", target |-> target, key |-> "", idx |-> idx, member |-> <<>>]

\* target.append(item)
ListAppend(target, item) ==
    [op |-> "append", target |-> target, key |-> "", idx |-> 0, member |-> <<item>>]

RECURSIVE Flatten(_)
Flatten(seqs) == IF seqs = <<>> THEN <<>> ELSE Head(seqs) \o Flatten(Tail(seqs))

\* The number of entries built before the first one the model rejected.
ValidPrefix(built) ==
    Cardinality({i \in 1..Len(built) : \A j \in 1..i : built[j].valid})

\* if isinstance(primary.get(key), str): merged[key] = primary[key]
TextWrites(merged, draft, key) ==
    IF IsStr(Get(draft[key])) THEN <<SetItem(merged, key, draft[key])>> ELSE <<>>

\* if primary.get(key): merged[key] = [str(item) for item in ...]
StrListWrites(merged, draft, key) ==
    IF Truthy(Get(draft[key])) THEN <<SetItem(merged, key, <<StrItems(draft[key][1])>>)>>
    ELSE <<>>

\* if primary.get(optional_key): merged[optional_key] = primary[optional_key]
OptionalWrites(merged, draft, key) ==
    IF Truthy(Get(draft[key])) THEN <<SetItem(merged, key, draft[key])>> ELSE <<>>

\* The medication block: medication = merged_orders.get("medication",
\* {}).copy(), the assignments to it, and merged_orders["medication"] =
\* medication.
MedicationWrites(merged_orders, med, fallback) ==
    LET name == Or(Or(Get(med.name), Get(med.drug)), Get(med.medication))
        dose == Or(Get(med.dose), Get(med.strength))
        start_today == Get(med.start_today)
        medication == DictCopy(Member(merged_orders, "medication", fallback))
    IN  (IF Truthy(name) THEN <<SetItem(medication, "name", <<name>>)>> ELSE <<>>)
        \o (IF Truthy(dose) THEN <<SetItem(medication, "dose", <<dose>>)>> ELSE <<>>)
        \o (IF start_today.t = "bool"
            THEN <<SetItem(medication, "start_today", <<start_today>>)>> ELSE <<>>)
        \o <<SetItem(merged_orders, "medication", <<MergeMedication(med, fallback)>>)>>

\* The orders block: merged_orders = merged.get("orders", {}).copy(), the
\* medication block, labs.append on the new list labs, merged_orders["labs"]
\* = labs and merged["orders"] = merged_orders.
OrdersWrites(merged, draft, fallback) ==
    IF draft.orders = <<>> \/ ~IsDict(draft.orders[1]) THEN <<>>
    ELSE LET primary_orders == draft.orders[1]
             merged_orders == DictCopy(Member(merged, "orders", fallback.orders))
             medication == IF fallback.orders = <<>> THEN <<>>
                           ELSE fallback.orders[1].medication
             labs == IF Truthy(Get(primary_orders.labs))
                     THEN LabEntries(SelectSeq(CoerceList(primary_orders.labs[1]), IsDict))
                     ELSE <<>>
         IN  (IF IsDict(Get(primary_orders.medication))
              THEN MedicationWrites(merged_orders, primary_orders.medication[1], medication)
              ELSE <<>>)
             \o [i \in 1..Len(labs) |-> ListAppend(Made, labs[i])]
             \o (IF labs # <<>> THEN <<SetItem(merged_orders, "labs", <<ListValue(labs)>>)>>
                 ELSE <<>>)
             \o <<SetItem(merged, "orders", MergeOrders(draft.orders, fallback.orders))>>

\* The citations block: citations.append on the new list citations until an
\* entry is rejected, and merged["citations"] = citations.
CitationWrites(merged, draft) ==
    IF ~Truthy(Get(draft.citations)) THEN [raised |-> FALSE, writes |-> <<>>]
    ELSE LET built == CitationEntries(SelectSeq(CoerceList(draft.citations[1]), IsDict))
             ok == ValidPrefix(built)
         IN  [raised |-> ok < Len(built),
              writes |->
                  [i \in 1..ok |-> ListAppend(Made, built[i].entry)]
                  \o (IF ok = Len(built) /\ built # <<>>
                      THEN <<SetItem(merged, "citations",
                                     <<ListValue([i \in 1..ok |-> built[i].entry])>>)>>
                      ELSE <<>>)]

\* The trial_matches block: primary_trials is a new list of the objects in
\* the draft's list; for each heuristic match primary_trials.pop(idx) when
\* _pop_candidate finds an entry, then combined.append on the new list
\* combined, until an entry is rejected; the same for the entries left; and
\* merged["trial_matches"] = combined.
TrialMatchWrites(merged, draft, fallback) ==
    IF ~Truthy(Get(draft.trial_matches)) THEN [raised |-> FALSE, writes |-> <<>>]
    ELSE LET existing_matches == SelectSeq(CoerceList(Get(fallback.trial_matches)), IsDict)
             offered == SelectSeq(CoerceList(draft.trial_matches[1]), IsDict)
             primary_trials ==
                 Comprehension(CoerceListRef(Member(Held("primary", <<>>), "trial_matches",
                                                    draft.trial_matches),
                                             draft.trial_matches[1]))
             pairings == Pairings(existing_matches, offered)
             built == AppendLeft(MergeExisting(existing_matches, offered, <<>>))
             ok == ValidPrefix(built)
             attempted == IF ok < Len(built) THEN ok + 1 ELSE ok
             step(j) ==
                 (IF j <= Len(pairings) /\ pairings[j].idx # 0
                  THEN <<ListPop(primary_trials, pairings[j].idx)>> ELSE <<>>)
                 \o (IF j <= ok THEN <<ListAppend(Made, built[j].entry)>> ELSE <<>>)
         IN  [raised |-> ok < Len(built),
              writes |->
                  Flatten([j \in 1..attempted |-> step(j)])
                  \o (IF ok = Len(built) /\ built # <<>>
                      THEN <<SetItem(merged, "trial_matches",
                                     <<ListValue([i \in 1..ok |-> built[i].entry])>>)>>
                      ELSE <<>>)]

\* _merge_plan_cards(primary, fallback): the assignments, pops and appends
\* it executes, in order, each with the object it acts on; merged =
\* fallback.copy().  Nothing follows a block that raises.
MergeWrites(primary, fallback) ==
    LET draft == DraftOrEmpty(primary)
        merged == DictCopy(Held("fallback", <<>>))
        citations == CitationWrites(merged, draft)
        trial_matches == TrialMatchWrites(merged, draft, fallback)
    IN  TextWrites(merged, draft, "recommendation")
        \o TextWrites(merged, draft, "rationale")
        \o StrListWrites(merged, draft, "alternatives")
        \o StrListWrites(merged, draft, "safety_checks")
        \o OrdersWrites(merged, draft, fallback)
        \o citations.writes
        \o (IF citations.raised THEN <<>>
            ELSE trial_matches.writes
                 \o (IF trial_matches.raised THEN <<>>
                     ELSE StrListWrites(merged, draft, "evidence_highlights")
                          \o OptionalWrites(merged, draft, "llm_model")
                          \o OptionalWrites(merged, draft, "generated_at")
                          \o OptionalWrites(merged, draft, "notes")))

\* The value of an object after a write to the object it holds under the
\* keys of `path'.
RECURSIVE WriteAt(_, _, _)
WriteAt(value, path, write) ==
    IF path # <<>>
    THEN [value EXCEPT ![Head(path)] = <<WriteAt(@[1], Tail(path), write)>>]
    ELSE IF write.op = "set" THEN [value EXCEPT ![write.key] = write.member]
    ELSE IF write.op = "pop" THEN [value EXCEPT !.items = RemoveAt(@, write.idx)]
    ELSE [value EXCEPT !.items = Append(@, write.member[1])]

\* The value of the argument `root' after the writes: those that act on an
\* object the argument holds, and not on an object the function has made.
RECURSIVE ArgumentAfter(_, _, _)
ArgumentAfter(root, value, writes) ==
    IF writes = <<>> THEN value
    ELSE ArgumentAfter(root,
                       IF ~Head(writes).target.fresh /\ Head(writes).target.root = root
                       THEN WriteAt(value, Head(writes).target.path, Head(writes))
                       ELSE value,
                       Tail(writes))

\* The heuristic card as _merge_plan_cards leaves the object it was handed.
FallbackAfterMerge(primary, fallback) ==
    ArgumentAfter("fallback", fallback, MergeWrites(primary, fallback))

\* The draft as _merge_plan_cards leaves the object it was handed; None is
\* left as it is.
DraftAfterMerge(primary, fallback) ==
    IF primary.t = "null" THEN primary
    ELSE ArgumentAfter("primary", primary, MergeWrites(primary, fallback))

\* The card that merged is bound to when the function returns: the members
\* of the heuristic card, with the assignments to merged.
CardFromWrites(primary, fallback) ==
    LET merged == DictCopy(Held("fallback", <<>>))
        assigned == SelectSeq(MergeWrites(primary, fallback),
                              LAMBDA w : w.target = merged /\ w.op = "set")
    IN  ArgumentAfter("fallback", fallback,
                      [i \in 1..Len(assigned) |->
                          [assigned[i] EXCEPT !.target = Held("fallback", <<>>)]])

\* An object of a trial_matches list.
PlanTrialMatch(title, nct_id, site_distance_km, status, why_match, summary) ==
    [t |-> "object", title |-> title, nct_id |-> nct_id,
     site_distance_km |-> site_distance_km, status |-> status, why_match |-> why_match,
     summary |-> summary]

\* The entries _derive_trial_matches builds for two trials of an evidence
\* pack: every key present.
PackMatches ==
    <<PlanTrialMatch(<<StringValue(Str.TrialA)>>, <<StringValue(Str.NCT1)>>,
                 <<NumberValue(<<"1", "2", ".", "4">>)>>, <<StringValue(Str.Recruiting)>>,
                 <<StringValue(Str.diabetes)>>, <<>>),
      PlanTrialMatch(<<StringValue(Str.TrialB)>>, <<StringValue(Str.NCT2)>>,
                 <<NumberValue(<<"4", "0">>)>>, <<StringValue(Str.Recruiting)>>,
                 <<NullValue>>, <<>>)>>

\* _derive_trial_matches: at most two entries.
DeriveTrialMatches(trials) == SubSeq(PackMatches, 1, IF trials < 2 THEN trials ELSE 2)

\* An object of a citations list.
Citation(type, category, id, title, org, organization, year) ==
    [t |-> "object", type |-> type, category |-> category, id |-> id, title |-> title,
     org |-> org, organization |-> organization, year |-> year]

\* An object of a labs list.
Lab(name, test, due_in_days, frequency) ==
    [t |-> "object", name |-> name, test |-> test, due_in_days |-> due_in_days,
     frequency |-> frequency]

\* _draft_plan_card for an evidence pack with the given numbers of trials
\* and analyses; the rationale and the highlights stand for the texts
\* formatted from the patient summary and the analyses.
HeuristicCard(trials, analyses) ==
    [EmptyCard EXCEPT
        !.recommendation = <<StringValue(Str.HeuristicRecommendation)>>,
        !.rationale = <<StringValue(<<"C", "K", "D">>)>>,
        !.alternatives = <<ListValue(<<StringValue(<<"G", "L", "P", "-", "1">>)>>)>>,
        !.safety_checks = <<ListValue(<<StringValue(<<"H", "o", "l", "d">>),
                                        StringValue(<<"R", "e", "p", "e", "a", "t">>)>>)>>,
        !.orders =
            <<[t |-> "object",
               medication |->
                   <<[NoMedication EXCEPT
                         !.name = <<StringValue(Str.empagliflozin)>>,
                         !.dose = <<StringValue(Str.Dose10mg)>>,
                         !.start_today = <<BoolValue(TRUE)>>]>>,
               labs |->
                   <<ListValue(<<Lab(<<StringValue(Str.BMP)>>, <<>>,
                                     <<NumberValue(<<"1", "4">>)>>, <<>>),
                                 Lab(<<StringValue(Str.A1c)>>, <<>>,
                                     <<NumberValue(<<"9", "0">>)>>, <<>>)>>)>>]>>,
        !.citations =
            <<ListValue(<<Citation(<<StringValue(Str.RCT)>>, <<>>,
                                   <<StringValue(Str.EMPAREG)>>, <<>>, <<>>, <<>>,
                                   <<NumberValue(Str.Year2015)>>),
                          Citation(<<StringValue(Str.Guideline)>>, <<>>, <<>>, <<>>,
                                   <<StringValue(Str.KDIGO)>>, <<>>,
                                   <<NumberValue(Str.Year2022)>>)>>)>>,
        !.trial_matches = <<ListValue(DeriveTrialMatches(trials))>>,
        !.evidence_highlights =
            IF analyses > 0
            THEN <<ListValue([i \in 1..(IF analyses < 2 THEN analyses ELSE 2) |->
                                 StringValue(<<"s", "u", "m">>)])>>
            ELSE <<>>]

\* The heuristic cards merged into.
HeuristicCards == {HeuristicCard(trials, analyses) : trials \in 0..2, analyses \in {0, 2}}

MaxDraftMatches == 2

\* Entries of a draft's trial_matches: the first heuristic trial by id only,
\* by id in another case with a new title, and by title in another case; the
\* second heuristic trial with a distance in words; a trial the heuristic
\* does not have; and an item that is not an object.
DraftMatchEntries ==
    {PlanTrialMatch(<<>>, <<StringValue(Str.NCT1)>>, <<>>, <<>>, <<>>, <<>>),
     PlanTrialMatch(<<StringValue(Str.TrialC)>>, <<StringValue(Str.nct1)>>, <<>>, <<>>, <<>>,
                <<StringValue(Str.Weekly)>>),
     PlanTrialMatch(<<StringValue(Str.trialA)>>, <<>>, <<NumberValue(<<"3">>)>>, <<>>,
                <<StringValue(Str.Near)>>, <<>>),
     PlanTrialMatch(<<StringValue(Str.TrialB)>>, <<StringValue(Str.NCT2)>>,
                <<StringValue(Str.Near)>>, <<>>, <<>>, <<>>),
     PlanTrialMatch(<<StringValue(Str.TrialC)>>, <<StringValue(Str.NCT3)>>,
                <<NumberValue(<<"5">>)>>, <<StringValue(Str.Recruiting)>>, <<>>, <<>>),
     StringValue(Str.TrialA)}

RECURSIVE DraftMatchLists(_)
DraftMatchLists(n) ==
    IF n = 0 THEN {<<>>}
    ELSE DraftMatchLists(n - 1)
         \cup {Append(l, e) : l \in {m \in DraftMatchLists(n - 1) : Len(m) = n - 1},
                              e \in DraftMatchEntries}

\* Drafts that set trial_matches only.
TrialMatchDrafts ==
    {[EmptyCard EXCEPT !.trial_matches = <<ListValue(l)>>] :
        l \in DraftMatchLists(MaxDraftMatches)}

\* Values a model puts where a text is expected.
DraftTexts ==
    {<<>>, <<NullValue>>, <<StringValue(<<"X">>)>>, <<StringValue(Str.Dose10mg)>>,
     <<StringValue(<<>>)>>,
     <<NumberValue(<<"5">>)>>, <<ListValue(<<StringValue(<<"X">>)>>)>>}

\* Drafts that set the recommendation and the rationale only.
TextDrafts ==
    {[EmptyCard EXCEPT !.recommendation = r, !.rationale = q] :
        r \in DraftTexts, q \in {<<>>, <<StringValue(<<"Y">>)>>}}

\* Values a model puts where a list of texts is expected.
DraftLists ==
    {<<>>, <<NullValue>>, <<ListValue(<<>>)>>, <<StringValue(<<"A">>)>>,
     <<ListValue(<<StringValue(<<"A">>), NumberValue(<<"5">>), NullValue>>)>>}

\* Drafts that set alternatives, safety_checks and evidence_highlights only.
ListDrafts ==
    {[EmptyCard EXCEPT !.alternatives = a, !.safety_checks = s,
                       !.evidence_highlights = h] :
        a \in DraftLists, s \in {<<>>, <<ListValue(<<StringValue(<<"S">>)>>)>>},
        h \in {<<>>, <<ListValue(<<>>)>>, <<ListValue(<<StringValue(<<"H">>)>>)>>}}

\* Drafts that set the provenance keys only.
ProvenanceDrafts ==
    {[EmptyCard EXCEPT !.llm_model = m, !.generated_at = g, !.notes = n] :
        m \in {<<>>, <<StringValue(Str.ModelName)>>},
        g \in {<<>>, <<StringValue(<<"n", "o", "w">>)>>},
        n \in {<<>>, <<StringValue(<<>>)>>, <<StringValue(<<"n", "o", "t", "e">>)>>}}

\* Medications of a draft: not an object, aliases, an empty name, a flag
\* that is not a boolean.
DraftMedications ==
    {<<>>, <<StringValue(Str.empagliflozin)>>,
     <<[NoMedication EXCEPT !.drug = <<StringValue(<<"D">>)>>,
                            !.strength = <<StringValue(<<"5">>)>>,
                            !.start_today = <<BoolValue(FALSE)>>]>>,
     <<[NoMedication EXCEPT !.name = <<StringValue(<<>>)>>,
                            !.medication = <<StringValue(<<"M">>)>>,
                            !.start_today = <<StringValue(<<"n", "o">>)>>]>>}

\* Labs of a draft: a due time in days, as a fraction, as a frequency in
\* words, missing, and an item that is not an object.
DraftLabs ==
    {<<>>,
     <<ListValue(<<Lab(<<>>, <<StringValue(Str.BMP)>>, <<>>, <<StringValue(Str.Weekly)>>),
                   StringValue(Str.A1c),
                   Lab(<<StringValue(Str.A1c)>>, <<>>, <<NumberValue(<<"7", ".", "5">>)>>,
                       <<>>)>>)>>,
     <<ListValue(<<Lab(<<StringValue(Str.A1c)>>, <<>>, <<>>,
                       <<StringValue(Str.Every3Months)>>)>>)>>,
     <<ListValue(<<Lab(<<StringValue(Str.BMP)>>, <<>>, <<>>, <<>>)>>)>>,
     <<Lab(<<StringValue(Str.BMP)>>, <<>>, <<BoolValue(TRUE)>>, <<>>)>>}

\* Drafts that set orders only.
OrderDrafts ==
    {[EmptyCard EXCEPT !.orders = <<StringValue(<<"n", "o", "n", "e">>)>>]}
    \cup {[EmptyCard EXCEPT !.orders = <<[t |-> "object", medication |-> m, labs |-> l]>>] :
            m \in DraftMedications, l \in DraftLabs}

\* Citations of a draft: aliases, a year in digits, a year in words, no
\* type, and an item that is not an object.
DraftCitations ==
    {<<>>, <<ListValue(<<>>)>>,
     <<ListValue(<<Citation(<<>>, <<StringValue(Str.RCT)>>, <<>>,
                            <<StringValue(Str.EMPAREG)>>, <<>>,
                            <<StringValue(Str.KDIGO)>>, <<StringValue(Str.Year2015)>>)>>)>>,
     <<ListValue(<<Citation(<<StringValue(Str.RCT)>>, <<>>, <<>>, <<>>, <<>>, <<>>,
                            <<StringValue(Str.NoDate)>>)>>)>>,
     <<ListValue(<<StringValue(Str.KDIGO)>>)>>,
     <<Citation(<<>>, <<>>, <<StringValue(Str.KDIGO)>>, <<>>, <<>>, <<>>,
                <<NumberValue(Str.Year2022)>>)>>}

\* Drafts that set citations only.
CitationDrafts == {[EmptyCard EXCEPT !.citations = c] : c \in DraftCitations}

\* What _merge_plan_cards is given as primary: None or a draft.
MergeDrafts ==
    {NullValue} \cup TextDrafts \cup ListDrafts \cup ProvenanceDrafts \cup OrderDrafts
    \cup CitationDrafts \cup TrialMatchDrafts

NotMerged == <<>>

IdleMerge == mg_primary = NullValue /\ mg_fallback = EmptyCard /\ mg_result = NotMerged

\* No call is in progress on the thread.  `node' is the node of the request
\* that made the call, `listed' and `reply' what the node's calls have
\* returned so far, and `waited' tells whether the clock has advanced since
\* the call began to wait for an answer.
NoCall ==
    [pc |-> "idle", node |-> "none", op |-> "none", domain |-> "api_manager", key |-> "ehr",
     called |-> 0, started |-> 0, alone |-> TRUE, before |-> EmptyTokenCache,
     entry |-> EmptyToolsCache, response |-> <<>>, validated |-> 0, result |-> None,
     sent |-> FALSE, listed |-> <<>>, reply |-> <<>>, waited |-> FALSE]

IdleConc ==
    conc = [threads |-> <<>>, issued |-> {}, handed |-> {}, planned |-> 0, begun |-> 0]

IdleCounter == cg_node = "END" /\ cg_state = [count |-> 0] /\ cg_log = <<>>

IdleParam == mp_schema = <<>> /\ mp_call = <<>>

NoDraft == <<>>

\* The model draft llm_plan_card builds from a plan candidate: the candidate
\* with llm_model and generated_at set, and the reply's notes unless the
\* candidate has its own.
StampedDraft(candidate, parsed) ==
    [EmptyCard EXCEPT
        !.recommendation = candidate.recommendation,
        !.trial_matches = candidate.trial_matches,
        !.llm_model = <<StringValue(Str.ModelName)>>,
        !.generated_at = <<StringValue(<<"n", "o", "w">>)>>,
        !.notes = IF candidate.notes # <<>> THEN candidate.notes ELSE parsed.notes]

\* llm_plan_card: the request it makes next, or the exception raised (if
\* any) and the partial update returned, NoDraft standing for {}.
LlmPlanCard(urls, called) ==
    LET call == CallLlm(urls, called)
        extracted == IF call.raw = <<>> THEN <<>> ELSE ExtractJsonBlock(call.raw[1])
        \* parsed = _extract_json_block(raw) or {}
        parsed == IF extracted = <<>> \/ extracted[1].empty
                  THEN JsonValue("object", TRUE, <<>>, <<>>, <<>>)
                  ELSE extracted[1]
        \* plan_candidate = parsed.get("plan_card") or parsed
        candidate == IF parsed.plan_card # <<>> /\ ~parsed.plan_card[1].empty
                     THEN parsed.plan_card[1] ELSE parsed
        out(exc, draft) ==
            [next |-> call.next, raised |-> exc, draft |-> draft, outcome |-> call.outcome]
    IN  IF call.next # "done" \/ call.raised # NoException
        THEN out(call.raised, NoDraft)
        ELSE IF call.raw = <<>>
        THEN out(NoException, NoDraft)
        ELSE IF parsed.t # "object"
        \* list(parsed.keys()) on a list, a number or a string
        THEN out("AttributeError", NoDraft)
        ELSE IF candidate.t # "object"
        THEN out(NoException, NoDraft)
        ELSE out(NoException, <<StampedDraft(candidate, parsed)>>)

\* _draft_plan_card: the heuristic plan card.
DraftPlanCard(state) ==
    HeuristicCard(state.evidence_pack[1].trials, state.evidence_pack[1].analyses)

\* assemble_plan: the exception raised (if any) and the plan card put into
\* the state.
AssemblePlanStamped(state) ==
    LET heuristic == DraftPlanCard(state) IN
    MergePlanCards(StampedDraft(EmptyCard, EmptyCard), heuristic)

AssemblePlan(state) ==
    LET heuristic == DraftPlanCard(state) IN
    IF state.llm_plan_card # <<>>
    THEN MergePlanCards(state.llm_plan_card[1], heuristic)
    ELSE [raised |-> NoException, card |-> heuristic]

\* assemble_plan, the objects it was handed: the model draft of the state and
\* the heuristic card as they are when it returns.
AssembleEffects(state, heuristic) ==
    IF state.llm_plan_card # <<>>
    THEN [llm_plan_card |-> <<DraftAfterMerge(state.llm_plan_card[1], heuristic)>>,
          heuristic |-> [before |-> heuristic,
                         after |-> FallbackAfterMerge(state.llm_plan_card[1], heuristic)]]
    ELSE [llm_plan_card |-> state.llm_plan_card,
          heuristic |-> [before |-> heuristic, after |-> heuristic]]

\* A member with a default of None: None when the key is absent.
OrNone(member) == IF member = <<>> THEN <<NullValue>> ELSE member

\* The member is a list of strings.
IsStrList(member) ==
    /\ member # <<>> /\ member[1].t = "array"
    /\ \A i \in 1..Len(member[1].items) : IsStr(member[1].items[i])

\* The member is a list of objects.
IsObjectList(member) ==
    /\ member # <<>> /\ member[1].t = "array"
    /\ \A i \in 1..Len(member[1].items) : IsDict(member[1].items[i])

\* OrdersModel accepts the member: a medication with a name and a dose that
\* are strings, and labs that each have a name and a whole number of days.
OrdersModelValid(member) ==
    /\ member # <<>> /\ IsDict(member[1])
    /\ member[1].medication # <<>> /\ IsDict(member[1].medication[1])
    /\ IsStr(Get(member[1].medication[1].name))
    /\ IsStr(Get(member[1].medication[1].dose))
    /\ Get(member[1].medication[1].start_today).t \in {"null", "bool"}
    /\ IsObjectList(member[1].labs)
    /\ \A i \in 1..Len(member[1].labs[1].items) :
          LET lab == member[1].labs[1].items[i] IN
          /\ IsStr(Get(lab.name))
          /\ Get(lab.due_in_days).t = "number" /\ IsIntegerText(Get(lab.due_in_days).v)

\* PlanCardModel accepts the card: the required members are there and every
\* member has the type the models declare (the cards of the model carry
\* strings where the models ask for strings).
PlanCardModelValid(card) ==
    /\ IsStr(Get(card.recommendation)) /\ IsStr(Get(card.rationale))
    /\ IsStrList(card.alternatives) /\ IsStrList(card.safety_checks)
    /\ OrdersModelValid(card.orders)
    /\ IsObjectList(card.citations)
    /\ \A i \in 1..Len(card.citations[1].items) :
          LET c == card.citations[1].items[i] IN
          CitationModelValid(Get(c.type), Get(c.id), Get(c.org), Get(c.year))
    /\ IsObjectList(card.trial_matches)
    /\ \A i \in 1..Len(card.trial_matches[1].items) :
          LET m == card.trial_matches[1].items[i] IN
          TrialMatchModel(Get(m.title), Get(m.nct_id), Get(m.site_distance_km),
                          Get(m.status), Get(m.why_match)).valid
    /\ Get(card.evidence_highlights).t = "null" \/ IsStrList(card.evidence_highlights)
    /\ \A m \in {card.llm_model, card.generated_at, card.notes} :
          Get(m).t \in {"null", "string"}

\* OrdersModel.parse_obj: start_today defaults to True and the members the
\* models do not declare are dropped.
ParsedOrders(orders) ==
    [t |-> "object",
     medication |->
        <<[NoMedication EXCEPT
              !.name = orders.medication[1].name,
              !.dose = orders.medication[1].dose,
              !.start_today = IF Get(orders.medication[1].start_today).t = "null"
                              THEN <<BoolValue(TRUE)>>
                              ELSE orders.medication[1].start_today]>>,
     labs |-> <<ListValue([i \in 1..Len(orders.labs[1].items) |->
                              Lab(orders.labs[1].items[i].name, <<>>,
                                  orders.labs[1].items[i].due_in_days, <<>>)])>>]

\* CitationModel.parse_obj: id, org and year are None when absent; year is
\* an int.
ParsedCitation(c) ==
    Citation(c.type, <<>>, OrNone(c.id), <<>>, OrNone(c.org), <<>>,
             IF Get(c.year).t = "null" THEN <<NullValue>>
             ELSE <<NumberValue(Get(c.year).v)>>)

\* PlanCardModel.parse_obj(plan_card) of a card the model accepts: the
\* optional members that are absent become None, the distances become
\* floats, and the members the models do not declare are dropped.
ParsePlanCard(card) ==
    [card EXCEPT
        !.orders = <<ParsedOrders(card.orders[1])>>,
        !.citations =
            <<ListValue([i \in 1..Len(card.citations[1].items) |->
                            ParsedCitation(card.citations[1].items[i])])>>,
        !.trial_matches =
            <<ListValue([i \in 1..Len(card.trial_matches[1].items) |->
                LET m == card.trial_matches[1].items[i] IN
                TrialMatchModel(Get(m.title), Get(m.nct_id), Get(m.site_distance_km),
                                Get(m.status), Get(m.why_match)).entry])>>,
        !.evidence_highlights = OrNone(card.evidence_highlights),
        !.llm_model = OrNone(card.llm_model),
        !.generated_at = OrNone(card.generated_at),
        !.notes = OrNone(card.notes)]

\* recommend_care_plan: the response for a graph run that raised `exc' or
\* ended with `state'.  An exception other than RuntimeError is not caught
\* and the server answers 500, the ValidationError of
\* PlanCardModel.parse_obj included; the plan card of a 200 response is the
\* card as the response model renders it.
RecommendCarePlan(exc, state) ==
    IF exc = "RuntimeError" THEN [status |-> 502, plan_card |-> <<>>]
    ELSE IF exc # NoException THEN [status |-> 500, plan_card |-> <<>>]
    ELSE IF state.plan_card = <<>> THEN [status |-> 500, plan_card |-> <<>>]
    ELSE IF ~PlanCardModelValid(state.plan_card[1])
    THEN [status |-> 500, plan_card |-> <<>>]
    ELSE [status |-> 200, plan_card |-> <<ParsePlanCard(state.plan_card[1])>>]

EmptyState ==
    [patient_summary |-> <<>>, evidence_pack |-> <<>>, llm_plan_card |-> <<>>,
     plan_card |-> <<>>]

NoResponse == [status |-> 0, plan_card |-> <<>>]

NothingObserved ==
    [fetch |-> "not_run", record |-> "none", evidence |-> "not_run",
     evidence_sent |-> FALSE, evidence_payload |-> <<>>, llm |-> "not_run",
     llm_text |-> <<>>, heuristic |-> <<>>]

IdleRun ==
    /\ endpoints = Urls
    /\ pc = "done"
    /\ run_state = EmptyState
    /\ executed = <<>>
    /\ raised = NoException
    /\ observed = NothingObserved
    /\ response = NoResponse

(***************************************************************************)
(* Calls in progress.  The request handlers are plain `def' functions,     *)
(* which FastAPI runs on a thread pool, and the token caches and the tool  *)
(* cache are module-level dicts that are read and written without a lock.  *)
(* A call is a sequence of steps: every access to a shared cache that      *)
(* another call's step can fall before or after is a step of its own, and  *)
(* a call waiting in requests.post stays at "post", "list_post" or         *)
(* "request_post" until the answer arrives.  The clock advances only while *)
(* every call in progress waits in a requests.post: the statements between *)
(* two blocking calls take microseconds, the clock steps of the model      *)
(* seconds.  A call is made on its own (node "none", and then it is        *)
(* recorded in token_log or tools_log), by a node of a request whose       *)
(* handler runs on thread 1, or by another request (node "other").         *)
(***************************************************************************)
\* The worker threads of the pool, in the order in which the pool hands
\* them out.
Threads == {1, 2}

\* Thread t is the one the pool hands the next call to: the first idle one.
Free(t) ==
    /\ conc.threads[t].pc = "idle"
    /\ \A u \in Threads : u < t => conc.threads[u].pc # "idle"

\* The position and the locals of the call thread t runs.
Local(t) == conc.threads[t]

SetThread(t, local) == [conc EXCEPT !.threads[t] = local]

\* The positions at which a call waits in requests.post.
Waiting == {"post", "list_post", "request_post"}

\* Every call in progress waits for the answer to a request.
Blocked == \A t \in DOMAIN conc.threads : Local(t).pc \in {"idle"} \cup Waiting

\* Two calls touch the same cache: get_token calls of one trust domain,
\* list_tools calls of one cache key.
Interferes(one, other) ==
    /\ one.op = other.op
    /\ IF one.op = "get_token" THEN one.domain = other.domain ELSE one.key = other.key

\* No call in progress on another thread touches the cache of `local'.
Undisturbed(t, local) ==
    \A u \in Threads \ {t} : Local(u).pc = "idle" \/ ~Interferes(Local(u), local)

\* The threads once thread t has begun the call `local': the calls in
\* progress that touch the same cache are no longer alone.
Begun(t, local) ==
    [u \in Threads |->
        IF u = t THEN local
        ELSE IF Local(u).pc # "idle" /\ Interferes(Local(u), local)
        THEN [Local(u) EXCEPT !.alone = FALSE]
        ELSE Local(u)]

\* The token of one exchange response with the expiry the call stores for
\* it at time t.
IssuedPair(d, resp, t) ==
    [domain |-> d, token |-> resp.access_token, expires_at |-> ExpiryWritten(t, resp)]

\* One observed get_token call: the clock when it was made and when it
\* returned, how many calls had returned when it was made, whether no other
\* call for its domain ran at the same time, the cache of its domain when
\* it was made and when it returned, and the value returned or the
\* exception raised.
TokenCallRecord(local, t, after, result, exc) ==
    [domain |-> local.domain, called |-> local.called, time |-> t,
     started |-> local.started, alone |-> local.alone, before |-> local.before,
     after |-> after, result |-> result, raised |-> exc, sent |-> local.sent,
     resp |-> local.response]

\* One observed list_tools call, likewise, with the cache entry of its key.
LookupRecord(local, t, after, result, exc, listresp) ==
    [key |-> local.key, called |-> local.called, time |-> t, started |-> local.started,
     alone |-> local.alone, before |-> local.entry, after |-> after, result |-> result,
     raised |-> exc, token_sent |-> local.sent, list_sent |-> listresp # <<>>,
     listresp |-> listresp]

Continue(local) == [local |-> local, token_log |-> token_log, tools_log |-> tools_log]

\* A call a node made has returned: the thread is back in the node's code
\* with the tools listed so far and the reply to the node's request.
Returned(local, listed, reply) ==
    [NoCall EXCEPT !.pc = "returned", !.node = local.node, !.op = local.op,
                   !.listed = listed, !.reply = reply]

\* _list_mcp_tools returns `tools', `entry' being the cache entry of its
\* key and `listresp' the answer to its tools/list request, if it sent one.
ListReturned(local, tools, entry, listresp) ==
    IF local.node = "none"
    THEN [local |-> NoCall, token_log |-> token_log,
          tools_log |-> Append(tools_log,
                               LookupRecord(local, now, entry, tools, "None", listresp))]
    ELSE Continue(Returned(local, <<tools>>, <<>>))

\* The token function returns `result' to its caller, `after' being the
\* token cache of the domain: get_token is done; _list_mcp_tools goes on to
\* `if not access_token: return []' and to its tools/list request;
\* _call_mcp_tool and _call_llm go on to `return None' or to their request.
TokenReturned(local, result, after) ==
    IF local.op = "get_token"
    THEN IF local.node = "none"
         THEN [local |-> NoCall,
               token_log |-> Append(token_log,
                                    TokenCallRecord(local, now, after, result, "None")),
               tools_log |-> tools_log]
         ELSE Continue(NoCall)
    ELSE IF result = None
    THEN IF local.op = "list_tools"
         THEN ListReturned(local, <<>>, tools_cache[local.key], <<>>)
         ELSE Continue(Returned(local, local.listed, <<NoToken(local.sent)>>))
    ELSE Continue([local EXCEPT
             !.pc = IF local.op = "list_tools" THEN "list_post" ELSE "request_post",
             !.result = result])

\* The token function raises `exc', which its except clause does not
\* catch: get_token is left with the exception, and so are _list_mcp_tools,
\* _call_mcp_tool and _call_llm, which call the token function before their
\* try block; the node that called them is left with it in turn.
TokenRaisedIn(local, exc, after) ==
    IF local.node = "none"
    THEN IF local.op = "get_token"
         THEN [local |-> NoCall,
               token_log |-> Append(token_log, TokenCallRecord(local, now, after, None, exc)),
               tools_log |-> tools_log]
         ELSE [local |-> NoCall, token_log |-> token_log,
               tools_log |-> Append(tools_log,
                                    LookupRecord(local, now, tools_cache[local.key], <<>>,
                                                 exc, <<>>))]
    ELSE IF local.op = "get_token" THEN Continue(NoCall)
    ELSE Continue(Returned(local, local.listed, <<TokenRaised>>))

\* `if not all([...]): return None', then the read of the cached token in
\* `if _access_token_cache["token"] and ...'.
EnterGetToken(local) ==
    IF ~CredentialsConfigured(configured[local.domain])
    THEN TokenReturned(local, None, token_cache[local.domain])
    ELSE Continue([local EXCEPT
             !.pc = IF token_cache[local.domain].token # None THEN "check_expiry"
                    ELSE "post"])

\* `cache_entry = _mcp_tools_cache.get(cache_key, ...)' has been read into
\* local.entry: a fresh entry is returned, otherwise _get_mcp_access_token()
\* is entered.
LookupFrom(local) ==
    IF ToolsCacheFresh(local.entry, now)
    THEN ListReturned(local, local.entry.tools, local.entry, <<>>)
    ELSE EnterGetToken(local)

\* Thread t goes on as `next' says, the rest of `calls' staying as it is.
Resume(calls, t, next) ==
    /\ conc' = [calls EXCEPT !.threads[t] = next.local]
    /\ token_log' = next.token_log
    /\ tools_log' = next.tools_log

\* A request handler calls the token function of trust domain d.
StartCall(t, d) ==
    /\ Free(t)
    /\ Len(token_log) + Cardinality({u \in Threads : Local(u).pc # "idle"}) < MaxCalls
    /\ \E local \in {[NoCall EXCEPT !.op = "get_token", !.domain = d, !.called = now,
                                    !.started = Len(token_log),
                                    !.alone = Undisturbed(t, [op |-> "get_token",
                                                              domain |-> d]),
                                    !.before = token_cache[d]]} :
         Resume([conc EXCEPT !.threads = Begun(t, local)], t, EnterGetToken(local))
    /\ UNCHANGED <<token_cache, tools_cache>>

\* `... and _access_token_cache["expires_at"] > time.time() + 60': the read
\* of the expiry.
CheckExpiry(t) ==
    /\ Local(t).pc = "check_expiry"
    /\ conc' = SetThread(t, [Local(t) EXCEPT
           !.pc = IF ExpiryValid(token_cache[Local(t).domain].expires_at, now)
                  THEN "return_cached" ELSE "post",
           !.validated = token_cache[Local(t).domain].expires_at])
    /\ UNCHANGED <<token_cache, tools_cache, token_log, tools_log>>

\* The tokens handed out from the cache by the calls made on their own.
HandedOut(local, cache) ==
    IF local.node = "none"
    THEN conc.handed \cup {[domain |-> local.domain, token |-> cache.token,
                            expires_at |-> local.validated]}
    ELSE conc.handed

\* `return _access_token_cache["token"]': the second read of the token.
ReturnCached(t) ==
    /\ Local(t).pc = "return_cached"
    /\ \E cache \in {token_cache[Local(t).domain]} :
         Resume([conc EXCEPT !.handed = HandedOut(Local(t), cache)],
                t, TokenReturned(Local(t), cache.token, cache))
    /\ UNCHANGED <<token_cache, tools_cache>>

\* The identity server issues another token with every exchange.
NextToken == IF Cardinality(conc.issued) % 2 = 0 THEN "tok1" ELSE "tok2"

\* The answers of the token endpoint considered for a call.  A token that
\* lives ShortLifetime seconds is considered for the gateway, of which a
\* request asks twice.
TokenAnswers(local) ==
    IF local.node = "none"
    THEN IF local.op = "get_token"
         THEN {r \in TokenResponses : r.kind = "ok" => r.access_token = NextToken}
         ELSE ListTokenResponses
    ELSE IF local.node = "other" THEN OtherTokenResponses
    ELSE IF local.domain = "mcp_gateway" THEN RunTokenResponses
    ELSE {r \in RunTokenResponses : r.expires_in = <<>>}

\* The clock has advanced by the time the request takes since the call of
\* a node began to wait for its answer.
Awaited(local) == local.node \in {"none", "other"} \/ local.waited

\* The tokens issued to the calls made on their own.
IssuedTo(local, resp) ==
    IF local.node = "none"
    THEN conc.issued \cup {IssuedPair(local.domain, resp, now)}
    ELSE conc.issued

\* The exceptions the token function of a call catches: MCPClient, the
\* client of the MCP evidence agent, has `except Exception'.
Caught(local) ==
    IF local.node = "score_trials_mcp" THEN CaughtByTokenFunction \cup {"TypeError"}
    ELSE CaughtByTokenFunction

\* requests.post(...) returns.  When raise_for_status(), response.json() or
\* token_data["access_token"] raises, the cache is left alone: the except
\* branch returns None for the exceptions it names, and a TypeError leaves
\* the function.  Otherwise `_access_token_cache["token"] = access_token'
\* is executed, the first of the two stores.
PostExchange(t) ==
    /\ Local(t).pc = "post"
    /\ Awaited(Local(t))
    /\ \E resp \in TokenAnswers(Local(t)) :
         \E local \in {[Local(t) EXCEPT !.sent = TRUE, !.response = <<resp>>,
                                        !.waited = FALSE]} :
           IF ExchangeOk(resp)
           THEN /\ token_cache' = [token_cache EXCEPT
                                      ![local.domain].token = resp.access_token]
                /\ Resume([conc EXCEPT !.issued = IssuedTo(local, resp)],
                          t, Continue([local EXCEPT !.pc = "write_expiry"]))
           ELSE /\ token_cache' = token_cache
                /\ Resume(conc, t,
                          IF ExchangeException(resp) \in Caught(local)
                          THEN TokenReturned(local, None, token_cache[local.domain])
                          ELSE TokenRaisedIn(local, ExchangeException(resp),
                                             token_cache[local.domain]))
    /\ UNCHANGED tools_cache

\* `_access_token_cache["expires_at"] = time.time() + expires_in', then
\* `return access_token'.
WriteExpiry(t) ==
    /\ Local(t).pc = "write_expiry"
    /\ \E cache \in {[token_cache[Local(t).domain] EXCEPT
                        !.expires_at = ExpiryWritten(now, Local(t).response[1])]} :
         /\ token_cache' = [token_cache EXCEPT ![Local(t).domain] = cache]
         /\ Resume(conc, t, TokenReturned(Local(t), Local(t).response[1].access_token, cache))
    /\ UNCHANGED tools_cache

\* Each agent process calls _list_mcp_tools with one cache key, "ehr" in
\* the care-plan agent and "trial_registry" in the evidence agent: the
\* lookups made so far in this process, if any, used key k.
ProcessKey(k) ==
    /\ \A i \in 1..Len(tools_log) : tools_log[i].key = k
    /\ \A u \in Threads : Local(u).op = "list_tools" => Local(u).key = k

\* A caller lists the tools of the endpoint cached under key k:
\* `cache_entry = _mcp_tools_cache.get(cache_key, ...)' and the test of the
\* entry; on a miss _get_mcp_access_token() is entered.
ListStart(t, k) ==
    /\ Free(t)
    /\ ProcessKey(k)
    /\ Len(tools_log) + Cardinality({u \in Threads : Local(u).pc # "idle"}) < MaxLookups
    /\ \E local \in {[NoCall EXCEPT !.op = "list_tools", !.domain = "mcp_gateway",
                                    !.key = k, !.called = now,
                                    !.started = Len(tools_log),
                                    !.alone = Undisturbed(t, [op |-> "list_tools",
                                                              key |-> k]),
                                    !.before = token_cache["mcp_gateway"],
                                    !.entry = tools_cache[k]]} :
         Resume([conc EXCEPT !.threads = Begun(t, local)], t, LookupFrom(local))
    /\ UNCHANGED <<token_cache, tools_cache>>

\* The tools/list answers considered for a call.
ListAnswers(local) ==
    IF local.node = "none" THEN ListResponses
    ELSE IF local.key = "ehr" THEN RunListResponses
    ELSE RegistryListResponses

\* The tools/list request returns.  An HTTP error, or an error payload,
\* returns [] and leaves the cache alone; otherwise the entry is replaced,
\* stamped with the clock read at that moment, and the tools are returned.
ListPost(t) ==
    /\ Local(t).pc = "list_post"
    /\ Awaited(Local(t))
    /\ \E listresp \in ListAnswers(Local(t)) :
         \E entry \in {IF listresp.kind = "ok"
                       THEN [tools |-> listresp.tools, timestamp |-> now]
                       ELSE tools_cache[Local(t).key]} :
           /\ tools_cache' = [tools_cache EXCEPT ![Local(t).key] = entry]
           /\ Resume(conc, t,
                     ListReturned(Local(t),
                                  IF listresp.kind = "ok" THEN listresp.tools ELSE <<>>,
                                  entry, <<listresp>>))
    /\ UNCHANGED token_cache

\* The request runs while no other request does.
Alone == conc.planned = 0

\* The model's list of analyses is at most this long in the grading replies
\* considered while another request runs.
MaxSharedEntries == 1

\* The answers considered for the request a node sends after it has got its
\* token (tools/call, chat completion) or without one (evidence search).
\* The many lists of trials and the long lists of analyses are considered
\* for a request that runs alone.
RequestAnswers(local) ==
    IF local.node = "fetch_patient_summary" THEN ToolCallResponses
    ELSE IF local.node = "call_evidence_agent" THEN EvidenceResponses
    ELSE IF local.node = "llm_plan_card" THEN ChatResponses
    ELSE IF local.node = "llm_grade_trials"
    THEN GradeChatResponses(IF Alone THEN MaxEntries ELSE MaxSharedEntries)
    ELSE IF local.node = "fetch_trials" THEN RegistryAnswers(GradeTrialLists)
    ELSE RegistryAnswers(IF Alone THEN TrialLists ELSE GradeTrialLists)

\* The request of a node returns (or fails), and the thread is back in the
\* node's code with the reply.
RequestPost(t) ==
    /\ Local(t).pc = "request_post"
    /\ Awaited(Local(t))
    /\ \E reply \in RequestAnswers(Local(t)) :
         Resume(conc, t, Continue(Returned(Local(t), Local(t).listed, <<reply>>)))
    /\ UNCHANGED <<token_cache, tools_cache>>

\* What a call in progress does next.
TokenStep(t) == CheckExpiry(t) \/ ReturnCached(t) \/ PostExchange(t) \/ WriteExpiry(t)

Elsewhere ==
    UNCHANGED <<selVars, scorerVars, runVars, evVars, mergeVars, counterVars, paramVars>>

\* The request handled on thread 1 is between two calls.
Handler == [NoCall EXCEPT !.pc = "handler"]

\* The most calls of other requests that fall into a request.
MaxOtherCalls == 1

\* A request arrives and its handler is given thread 1; `others' is the
\* number of calls other requests will make while it runs.
RequestArrives(others) ==
    conc = [threads |-> [t \in Threads |-> IF t = 1 THEN Handler ELSE NoCall],
            issued |-> {}, handed |-> {}, planned |-> others, begun |-> 0]

\* The handler of another request, on the second thread, calls the token
\* function of a trust domain.
OtherCall ==
    /\ Free(2)
    /\ conc.begun < conc.planned
    /\ \E d \in Domains :
         Resume([conc EXCEPT !.begun = @ + 1], 2,
                EnterGetToken([NoCall EXCEPT !.node = "other", !.op = "get_token",
                                             !.domain = d]))
    /\ UNCHANGED <<token_cache, tools_cache>>

\* The request of thread 1 takes PostDelay seconds.
PostTakesTime ==
    /\ Blocked
    /\ Local(1).pc \in Waiting
    /\ ~Awaited(Local(1))
    /\ now' = now + PostDelay
    /\ conc' = SetThread(1, [Local(1) EXCEPT !.waited = TRUE])
    /\ UNCHANGED <<configured, token_cache, token_log, toolsVars>>

\* The thread of the request is in the code of `node': the handler has
\* reached the node, or a call the node made has returned.
InNode(node) ==
    \/ Local(1).pc = "handler"
    \/ Local(1).pc = "returned" /\ Local(1).node = node

\* The thread of the request makes the call the node asks for next, or is
\* back in the handler when the node has returned or raised.
Proceed(node, next, key) ==
    IF next = "list_tools"
    THEN LookupFrom([NoCall EXCEPT !.node = node, !.op = next, !.domain = "mcp_gateway",
                                   !.key = key, !.entry = tools_cache[key]])
    ELSE IF next = "call_tool"
    THEN EnterGetToken([NoCall EXCEPT !.node = node, !.op = next, !.domain = "mcp_gateway",
                                      !.key = key, !.listed = Local(1).listed])
    ELSE IF next = "chat"
    THEN EnterGetToken([NoCall EXCEPT !.node = node, !.op = next, !.domain = "api_manager"])
    ELSE IF next = "post"
    THEN Continue([NoCall EXCEPT !.node = node, !.op = next, !.pc = "request_post"])
    ELSE Continue(Handler)

\* What the steps of the calls in progress and the clock do during a
\* request.
CallSteps ==
    \/ \E t \in Threads : TokenStep(t) /\ UNCHANGED <<now, configured>>
    \/ \E t \in Threads : ListPost(t) /\ UNCHANGED <<now, configured>>
    \/ \E t \in Threads : RequestPost(t) /\ UNCHANGED <<now, configured>>
    \/ OtherCall /\ UNCHANGED <<now, configured>>
    \/ PostTakesTime

\* What a step of a node leaves alone outside the request's own variables.
NodeFrame ==
    UNCHANGED <<now, configured, token_cache, tools_cache, selVars, mergeVars, counterVars,
                paramVars>>

(***************************************************************************)
(* The care-plan request: the nodes of the graph run on the request's      *)
(* thread, each from call to call.                                         *)
(***************************************************************************)
\* A request arrives at a process whose caches are empty or were filled by
\* an earlier request.
InitRun ==
    /\ now = StartTime
    /\ configured \in [Domains -> {Settings, Settings \ {"client_id"}}]
    /\ token_cache \in [Domains -> {EmptyTokenCache}]
    /\ token_log = <<>>
    /\ tools_cache \in {c \in [CacheKeys -> {EmptyToolsCache,
                                             [tools |-> EhrCatalog, timestamp |-> StartTime]}] :
                           /\ c["trial_registry"] = EmptyToolsCache
                           /\ (c["ehr"] # EmptyToolsCache
                                 => CredentialsConfigured(configured["mcp_gateway"]))}
    /\ tools_log = <<>>
    /\ IdleSel
    /\ IdleScorer
    /\ IdleEvidence
    /\ IdleMerge
    /\ \E others \in {0, MaxOtherCalls} : RequestArrives(others)
    /\ IdleCounter
    /\ IdleParam
    /\ endpoints \in SUBSET CarePlanUrls
    /\ pc = Nodes[1]
    /\ run_state = EmptyState
    /\ executed = <<>>
    /\ raised = NoException
    /\ observed = NothingObserved
    /\ response = NoResponse

\* The nodes executed so far, the node being entered when the thread comes
\* from the handler.
Entered(node) == IF Local(1).pc = "handler" THEN Append(executed, node) ELSE executed

\* Node fetch_patient_summary runs up to its next call or to its end.
FetchPatientSummaryNode ==
    /\ pc = "fetch_patient_summary"
    /\ InNode(pc)
    /\ \E r \in {FetchPatientSummary(endpoints, Local(1).listed, Local(1).reply)} :
         /\ Resume(conc, 1, Proceed(pc, r.next, "ehr"))
         /\ IF r.next = "done"
            THEN /\ raised' = r.raised
                 /\ run_state' = [run_state EXCEPT !.patient_summary = r.summary]
                 /\ observed' = [observed EXCEPT
                                   !.fetch = r.reason,
                                   !.record = IF r.reason = "ok"
                                              THEN Local(1).reply[1].record ELSE "none"]
                 /\ pc' = IF r.raised = NoException THEN "call_evidence_agent" ELSE "raised"
            ELSE UNCHANGED <<raised, run_state, observed, pc>>
    /\ executed' = Entered(pc)
    /\ UNCHANGED <<scorerVars, evVars, endpoints, response>>
    /\ NodeFrame

\* Node call_evidence_agent runs up to its request or to its end.
CallEvidenceAgentNode ==
    /\ pc = "call_evidence_agent"
    /\ InNode(pc)
    /\ \E r \in {CallEvidenceAgent(run_state.patient_summary[1], Local(1).reply)} :
         /\ Resume(conc, 1, Proceed(pc, r.next, "ehr"))
         /\ IF r.next = "done"
            THEN /\ raised' = r.raised
                 /\ run_state' = [run_state EXCEPT !.evidence_pack = r.pack]
                 /\ observed' = [observed EXCEPT
                                   !.evidence = r.reason,
                                   !.evidence_sent = r.sent,
                                   !.evidence_payload =
                                       IF r.sent
                                       THEN <<[age |-> run_state.patient_summary[1].age[1],
                                               egfr |-> run_state.patient_summary[1].last_egfr[1]]>>
                                       ELSE <<>>]
                 /\ pc' = IF r.raised = NoException THEN "llm_plan_card" ELSE "raised"
            ELSE UNCHANGED <<raised, run_state, observed, pc>>
    /\ executed' = Entered(pc)
    /\ UNCHANGED <<scorerVars, evVars, endpoints, response>>
    /\ NodeFrame

\* Node llm_plan_card runs up to its request or to its end.
LlmPlanCardNode ==
    /\ pc = "llm_plan_card"
    /\ InNode(pc)
    /\ \E r \in {LlmPlanCard(endpoints, Local(1).reply)} :
         /\ Resume(conc, 1, Proceed(pc, r.next, "ehr"))
         /\ IF r.next = "done"
            THEN /\ raised' = r.raised
                 /\ run_state' = [run_state EXCEPT !.llm_plan_card = r.draft]
                 /\ observed' = [observed EXCEPT
                                   !.llm = r.outcome,
                                   !.llm_text = IF r.outcome = "content"
                                                THEN <<Local(1).reply[1].text>> ELSE <<>>]
                 /\ pc' = IF r.raised = NoException THEN "assemble_plan" ELSE "raised"
            ELSE UNCHANGED <<raised, run_state, observed, pc>>
    /\ executed' = Entered(pc)
    /\ UNCHANGED <<scorerVars, evVars, endpoints, response>>
    /\ NodeFrame

\* Node assemble_plan runs.
AssemblePlanNode ==
    /\ pc = "assemble_plan"
    /\ Local(1).pc = "handler"
    /\ \E r \in {AssemblePlan(run_state)},
          eff \in {AssembleEffects(run_state, DraftPlanCard(run_state))} :
         /\ run_state' = [run_state EXCEPT
                             !.llm_plan_card = eff.llm_plan_card,
                             !.plan_card = IF r.raised = NoException THEN <<r.card>> ELSE @]
         /\ observed' = [observed EXCEPT !.heuristic = <<eff.heuristic>>]
         /\ raised' = r.raised
         /\ pc' = IF r.raised = NoException THEN "END" ELSE "raised"
    /\ executed' = Append(executed, "assemble_plan")
    /\ UNCHANGED <<credVars, toolsVars, selVars, scorerVars, evVars, mergeVars, concVars,
                   counterVars, paramVars, endpoints, response>>

\* recommend_care_plan answers the caller.
Respond ==
    /\ pc \in {"END", "raised"}
    /\ Local(1).pc = "handler"
    /\ response' = RecommendCarePlan(raised, run_state)
    /\ pc' = "done"
    /\ UNCHANGED <<credVars, toolsVars, selVars, scorerVars, evVars, mergeVars, concVars, counterVars, paramVars, endpoints, run_state, executed,
                   raised, observed>>

NextRun ==
    \/ FetchPatientSummaryNode
    \/ CallEvidenceAgentNode
    \/ LlmPlanCardNode
    \/ AssemblePlanNode
    \/ Respond
    \/ CallSteps /\ Elsewhere

SpecRun == InitRun /\ [][NextRun]_vars

IdleTools ==
    /\ tools_cache = [k \in CacheKeys |-> EmptyToolsCache]
    /\ tools_log = <<>>

NextSel == SelectTool /\ UNCHANGED <<credVars, toolsVars, scorerVars, runVars, evVars, mergeVars, concVars, counterVars, paramVars>>

\* Only the tool selection is exercised.
InitSelection ==
    /\ IdleCred
    /\ IdleTools
    /\ IdleScorer
    /\ IdleRun
    /\ IdleEvidence
    /\ IdleMerge
    /\ IdleConc
    /\ IdleCounter
    /\ IdleParam
    /\ InitSel

SpecSelect == InitSelection /\ [][NextSel]_vars

(***************************************************************************)
(* The evidence requests.  Each of the two evidence agents is a process of *)
(* its own; a behaviour follows one request to one of them.                *)
(***************************************************************************)
\* The evidence agent retrieves the candidate trials and scores them
\* (fetch_trials) and, the chat endpoint not being configured, grades them
\* by the heuristic (analyze_evidence).
ScoreTrials ==
    /\ ~sc_main.ran /\ ~sc_mcp.ran
    /\ InNode("score_trials")
    /\ \E r \in {FetchTrials(sc_context, endpoints, Local(1).listed, Local(1).reply)} :
         /\ Resume(conc, 1, Proceed("score_trials", r.next, "trial_registry"))
         /\ IF r.next = "done"
            THEN /\ sc_trials' = r.trials
                 /\ sc_main' = [ran |-> TRUE, raised |-> r.raised, candidates |-> r.trials,
                                matches |-> r.matches,
                                analyses |-> HeuristicAnalyses(r.matches)]
            ELSE UNCHANGED <<sc_trials, sc_main>>
    /\ UNCHANGED <<sc_context, sc_mcp, runVars, evVars>>
    /\ NodeFrame

\* The MCP evidence agent retrieves the candidate trials, scores and grades
\* them (generate_evidence_pack_mcp), or its synthetic trials when it
\* retrieved none.
ScoreTrialsMcp ==
    /\ ~sc_main.ran /\ ~sc_mcp.ran
    /\ InNode("score_trials_mcp")
    /\ \E r \in {GenerateEvidencePackMcp(sc_context, endpoints, Local(1).reply)} :
         /\ Resume(conc, 1, Proceed("score_trials_mcp", r.next, "trial_registry"))
         /\ IF r.next = "done"
            THEN /\ sc_trials' = r.trials
                 /\ sc_mcp' = [ran |-> TRUE, raised |-> r.raised,
                               candidates |-> r.candidates, matches |-> r.matches,
                               analyses |-> r.analyses]
            ELSE UNCHANGED <<sc_trials, sc_mcp>>
    /\ UNCHANGED <<sc_context, sc_main, runVars, evVars>>
    /\ NodeFrame

NextScorer ==
    \/ ScoreTrials
    \/ ScoreTrialsMcp
    \/ CallSteps /\ Elsewhere

\* The state of the care-plan request while an evidence agent is looked
\* at: no request, and the URLs `urls' configured.
NoRun(urls) ==
    /\ endpoints = urls
    /\ pc = "done"
    /\ run_state = EmptyState
    /\ executed = <<>>
    /\ raised = NoException
    /\ observed = NothingObserved
    /\ response = NoResponse

\* A request arrives at an evidence agent whose caches are empty and whose
\* chat endpoint is not configured.
InitScoring ==
    /\ now = StartTime
    /\ configured \in {c \in [Domains -> {Settings, Settings \ {"client_id"}}] :
                          c["api_manager"] = Settings}
    /\ token_cache = [d \in Domains |-> EmptyTokenCache]
    /\ token_log = <<>>
    /\ IdleTools
    /\ IdleSel
    /\ \E urls \in SUBSET {"TRIAL_REGISTRY_MCP_URL"} : NoRun(urls)
    /\ IdleEvidence
    /\ IdleMerge
    /\ \E others \in {0, MaxOtherCalls} : RequestArrives(others)
    /\ IdleCounter
    /\ IdleParam
    /\ sc_context \in PatientContexts
    /\ sc_trials = <<>>
    /\ sc_main = NoMatches
    /\ sc_mcp = NoMatches

SpecScorer == InitScoring /\ [][NextScorer]_vars

\* Node fetch_trials runs up to its next call or to its end.
FetchTrialsNode ==
    /\ ev_pc = "fetch_trials"
    /\ InNode(ev_pc)
    /\ \E r \in {FetchTrials(sc_context, endpoints, Local(1).listed, Local(1).reply)} :
         /\ Resume(conc, 1, Proceed(ev_pc, r.next, "trial_registry"))
         /\ IF r.next = "done"
            THEN /\ sc_trials' = r.trials
                 /\ ev_raised' = r.raised
                 /\ ev_state' = IF r.raised = "None"
                                THEN [ev_state EXCEPT !.trial_matches = r.matches]
                                ELSE ev_state
                 /\ ev_pc' = IF r.raised = "None" THEN "llm_grade_trials" ELSE "raised"
            ELSE UNCHANGED <<sc_trials, ev_raised, ev_state, ev_pc>>
    /\ UNCHANGED <<sc_context, sc_main, sc_mcp, runVars, ev_reply, ev_response>>
    /\ NodeFrame

\* Node llm_grade_trials runs up to its request or to its end.
LlmGradeTrialsNode ==
    /\ ev_pc = "llm_grade_trials"
    /\ InNode(ev_pc)
    /\ \E r \in {LlmGradeTrials(ev_state.trial_matches, endpoints, Local(1).reply)} :
         /\ Resume(conc, 1, Proceed(ev_pc, r.next, "trial_registry"))
         /\ IF r.next = "done"
            THEN /\ ev_reply' = r.reply
                 /\ ev_raised' = r.raised
                 /\ ev_state' = [ev_state EXCEPT !.analyses = r.analyses]
                 /\ ev_pc' = IF r.raised = "None" THEN "analyze_evidence" ELSE "raised"
            ELSE UNCHANGED <<ev_reply, ev_raised, ev_state, ev_pc>>
    /\ UNCHANGED <<scorerVars, runVars, ev_response>>
    /\ NodeFrame

\* What a node that sends nothing leaves alone.
QuietFrame ==
    /\ Local(1).pc = "handler"
    /\ UNCHANGED <<credVars, toolsVars, selVars, scorerVars, runVars, mergeVars, concVars,
                   counterVars, paramVars>>

\* An evidence request arrives.
InitGrade ==
    /\ IdleCred
    /\ IdleTools
    /\ IdleSel
    /\ \E urls \in SUBSET EvidenceUrls : NoRun(urls)
    /\ IdleMerge
    /\ \E others \in {0, MaxOtherCalls} : RequestArrives(others)
    /\ IdleCounter
    /\ IdleParam
    /\ sc_context \in GradeContexts
    /\ sc_trials = <<>>
    /\ sc_main = NoMatches
    /\ sc_mcp = NoMatches
    /\ ev_pc = "fetch_trials"
    /\ ev_state = EmptyEvidenceState
    /\ ev_raised = "None"
    /\ ev_reply = NoReply
    /\ ev_response = NoEvidenceResponse

NextGrade ==
    \/ FetchTrialsNode
    \/ LlmGradeTrialsNode
    \/ AnalyzeEvidenceNode /\ QuietFrame
    \/ EvidenceRespond /\ QuietFrame
    \/ CallSteps /\ Elsewhere

SpecGrade == InitGrade /\ [][NextGrade]_vars

\* _merge_plan_cards is called with a draft and a heuristic card.
InitMerge ==
    /\ IdleCred
    /\ IdleTools
    /\ IdleSel
    /\ IdleScorer
    /\ IdleRun
    /\ IdleEvidence
    /\ mg_primary \in MergeDrafts
    /\ mg_fallback \in HeuristicCards
    /\ mg_result = NotMerged
    /\ IdleConc
    /\ IdleCounter
    /\ IdleParam

MergePlanCardsCall ==
    /\ mg_result = NotMerged
    /\ mg_result' = <<MergePlanCards(mg_primary, mg_fallback)>>
    /\ mg_primary' = DraftAfterMerge(mg_primary, mg_fallback)
    /\ mg_fallback' = FallbackAfterMerge(mg_primary, mg_fallback)

NextMerge ==
    MergePlanCardsCall
    /\ UNCHANGED <<credVars, toolsVars, selVars, scorerVars, runVars, evVars, concVars,
                   counterVars, paramVars>>

SpecMerge == InitMerge /\ [][NextMerge]_vars

(***************************************************************************)
(* The token function and the tool lookup called on their own, by two      *)
(* threads, each call being recorded in token_log or tools_log.            *)
(***************************************************************************)
\* The configurations considered for the token functions: everything set,
\* or the API Manager domain lacking one of its settings.
CredConfigs ==
    {c \in [Domains -> ConfigChoices] : c["mcp_gateway"] = Settings}

\* No request is in progress on either thread.
ThreadsIdle ==
    conc = [threads |-> [t \in Threads |-> NoCall], issued |-> {}, handed |-> {},
            planned |-> 0, begun |-> 0]

InitCred ==
    /\ now = StartTime
    /\ configured \in CredConfigs
    /\ token_cache = [d \in Domains |-> EmptyTokenCache]
    /\ token_log = <<>>
    /\ ThreadsIdle
    /\ IdleTools
    /\ IdleSel
    /\ IdleScorer
    /\ IdleRun
    /\ IdleEvidence
    /\ IdleMerge
    /\ IdleCounter
    /\ IdleParam

\* Wall-clock time passes.
Tick ==
    /\ Blocked
    /\ now + TimeStep <= MaxTime
    /\ now' = now + TimeStep
    /\ UNCHANGED <<configured, token_cache, token_log, toolsVars, concVars>>
    /\ Elsewhere

NextCred ==
    \/ Tick
    \/ \E t \in Threads, d \in Domains :
         StartCall(t, d) /\ UNCHANGED <<now, configured>> /\ Elsewhere
    \/ \E t \in Threads : TokenStep(t) /\ UNCHANGED <<now, configured>> /\ Elsewhere

SpecCred == InitCred /\ [][NextCred]_vars

InitTools ==
    /\ now = StartTime
    /\ configured \in {c \in [Domains -> ConfigChoices] :
                          /\ c["api_manager"] = Settings
                          /\ c["mcp_gateway"] \in {Settings, Settings \ {"client_secret"}}}
    /\ token_cache = [d \in Domains |-> EmptyTokenCache]
    /\ token_log = <<>>
    /\ ThreadsIdle
    /\ IdleTools
    /\ IdleSel
    /\ IdleScorer
    /\ IdleRun
    /\ IdleEvidence
    /\ IdleMerge
    /\ IdleCounter
    /\ IdleParam

\* Wall-clock time passes.
TickLookup ==
    /\ Blocked
    /\ now + LookupTimeStep <= MaxLookupTime
    /\ now' = now + LookupTimeStep
    /\ UNCHANGED <<configured, token_cache, token_log, toolsVars, concVars>>
    /\ Elsewhere

NextTools ==
    \/ TickLookup
    \/ \E t \in Threads, k \in CacheKeys :
         ListStart(t, k) /\ UNCHANGED <<now, configured>> /\ Elsewhere
    \/ \E t \in Threads : TokenStep(t) /\ UNCHANGED <<now, configured>> /\ Elsewhere
    \/ \E t \in Threads : ListPost(t) /\ UNCHANGED <<now, configured>> /\ Elsewhere

SpecTools == InitTools /\ [][NextTools]_vars

(***************************************************************************)
(* Parameter mapping (care-plan-agent/app.py, fetch_patient_summary, step  *)
(* 3 and step 4): the name under which the patient id is passed to the     *)
(* selected tool is read off the tool's inputSchema, and _call_mcp_tool    *)
(* is called, which asks for the gateway's token before it sends           *)
(* anything.                                                               *)
(***************************************************************************)
MaxParams == 2

\* Parameter names met in tool schemas, each as a tuple of characters.
ParamNames ==
    {<<"p", "a", "t", "i", "e", "n", "t", "I", "d">>,
     <<"P", "A", "T", "I", "E", "N", "T", "_", "I", "D">>,
     <<"p", "a", "t", "i", "e", "n", "t", "_", "g", "u", "i", "d">>,
     <<"i", "d">>,
     <<"p", "a", "t", "i", "e", "n", "t">>,
     <<"n", "a", "m", "e">>}

\* "patient_id", the default fallback.
DefaultParam == <<"p", "a", "t", "i", "e", "n", "t", "_", "i", "d">>

PatientIds == {"12873", "40021"}

RECURSIVE NameLists(_)
NameLists(n) ==
    IF n = 0 THEN {<<>>}
    ELSE NameLists(n - 1)
         \cup {Append(l, x) : l \in {m \in NameLists(n - 1) : Len(m) = n - 1},
                              x \in ParamNames}

\* The inputSchema of a tool: the names of its properties in the order of
\* the JSON object, and its list of required names; each is <<>> when the
\* key is absent.
InputSchemas ==
    [properties : {<<>>} \cup {<<l>> : l \in NameLists(MaxParams)},
     required : {<<>>} \cup {<<l>> : l \in NameLists(1)}]

\* The tools selected: without an inputSchema, or with one.
SelectedTools == [inputSchema : {<<>>} \cup {<<x>> : x \in InputSchemas}]

\* "patient" in param_name.lower() and "id" in param_name.lower()
NamesPatientId(param_name) ==
    /\ Contains(Lower(param_name), <<"p", "a", "t", "i", "e", "n", "t">>)
    /\ Contains(Lower(param_name), <<"i", "d">>)

\* Mutant of PatientIdParamFrom: the names are not lower-cased before the
\* test.
RECURSIVE PatientIdParamCaseSensitive(_, _)
PatientIdParamCaseSensitive(properties, i) ==
    IF i > Len(properties) THEN <<>>
    ELSE IF /\ Contains(properties[i], <<"p", "a", "t", "i", "e", "n", "t">>)
            /\ Contains(properties[i], <<"i", "d">>)
    THEN <<properties[i]>>
    ELSE PatientIdParamCaseSensitive(properties, i + 1)

\* The loop `for param_name in properties.keys()' from position i on: <<>>
\* while patient_id_param is None.
RECURSIVE PatientIdParamFrom(_, _)
PatientIdParamFrom(properties, i) ==
    IF i > Len(properties) THEN <<>>
    ELSE IF NamesPatientId(properties[i]) THEN <<properties[i]>>
    ELSE PatientIdParamFrom(properties, i + 1)

\* The three steps that settle patient_id_param, given what the loop found.
PatientIdParam(found, required_params) ==
    IF found # <<>> /\ found[1] # <<>> THEN found[1]
    ELSE IF required_params # <<>> /\ required_params[1] # <<>> THEN required_params[1]
    ELSE DefaultParam

\* best_tool.get("inputSchema", {}), .get("properties", {}) and
\* .get("required", []), then the name chosen.
MapParameter(best_tool) ==
    LET input_schema == IF best_tool.inputSchema = <<>>
                        THEN [properties |-> <<>>, required |-> <<>>]
                        ELSE best_tool.inputSchema[1]
        properties == IF input_schema.properties = <<>> THEN <<>>
                      ELSE input_schema.properties[1]
        required_params == IF input_schema.required = <<>> THEN <<>>
                           ELSE input_schema.required[1]
    IN  PatientIdParam(PatientIdParamFrom(properties, 1), required_params)

\* The arguments of the tools/call request: {patient_id_param: patient_id}.
ToolArguments(best_tool, patient_id) ==
    {[name |-> MapParameter(best_tool), value |-> patient_id]}

\* fetch_patient_summary from the mapping of the parameter on (step 3 and
\* step 4): _call_mcp_tool(EHR_MCP_URL, tool_name, {patient_id_param:
\* patient_id}) is the call it makes next; afterwards, the arguments it
\* handed over, what came of the call, whether _call_mcp_tool sent its
\* tools/call request (it sends none when _get_mcp_access_token() returns
\* None or raises), and the exception fetch_patient_summary raises (if any).
SelectedToolCall(best_tool, patient_id, called) ==
    LET rest == FetchPatientSummary({"EHR_MCP_URL"}, <<EhrCatalog>>, called)
        out(next, reply, requested) ==
            [next |-> next, arguments |-> ToolArguments(best_tool, patient_id),
             reply |-> reply, requested |-> requested, raised |-> rest.raised]
    IN  IF called = <<>> THEN out("call_tool", "none", FALSE)
        ELSE out("done", called[1].kind,
                 called[1].kind \notin {NoToken(TRUE).kind, TokenRaised.kind})

\* The tokens the gateway's cache can hold when the tool has been selected:
\* the tools were listed with a token that is still valid, or with one that
\* has expired since (the catalog is cached for longer than a token of
\* ShortLifetime seconds lives).
GatewayTokensAtCall ==
    {[token |-> "tok1", expires_at |-> StartTime + DefaultExpiresIn],
     [token |-> "tok1", expires_at |-> StartTime + ShortLifetime]}

\* fetch_patient_summary has listed the tools of the EHR gateway and has
\* selected one, whose inputSchema mp_schema holds.
InitParam ==
    /\ now = StartTime
    /\ configured = [d \in Domains |-> Settings]
    /\ \E cached \in GatewayTokensAtCall :
         token_cache = [d \in Domains |->
                           IF d = "mcp_gateway" THEN cached ELSE EmptyTokenCache]
    /\ token_log = <<>>
    /\ tools_cache = [k \in CacheKeys |->
                         IF k = "ehr" THEN [tools |-> EhrCatalog, timestamp |-> StartTime]
                         ELSE EmptyToolsCache]
    /\ tools_log = <<>>
    /\ IdleSel
    /\ IdleScorer
    /\ IdleRun
    /\ IdleEvidence
    /\ IdleMerge
    /\ RequestArrives(0)
    /\ IdleCounter
    /\ mp_schema \in {<<[best_tool |-> x, patient_id |-> id]>> :
                          x \in SelectedTools, id \in PatientIds}
    /\ mp_call = <<>>

\* The selected tool is called: the node runs up to the call of
\* _call_mcp_tool, and from its return to `raise RuntimeError' or to the
\* processing of the result.
CallSelectedTool ==
    /\ mp_call = <<>>
    /\ InNode("fetch_patient_summary")
    /\ \E r \in {SelectedToolCall(mp_schema[1].best_tool, mp_schema[1].patient_id,
                                  Local(1).reply)} :
         /\ Resume(conc, 1, Proceed("fetch_patient_summary", r.next, "ehr"))
         /\ mp_call' = IF r.next = "done"
                       THEN <<[arguments |-> r.arguments, reply |-> r.reply,
                               requested |-> r.requested, raised |-> r.raised]>>
                       ELSE mp_call
    /\ UNCHANGED <<mp_schema, now, configured, token_cache, tools_cache>>

NextParam ==
    \/ CallSelectedTool
       /\ UNCHANGED <<selVars, scorerVars, runVars, evVars, mergeVars, counterVars>>
    \/ \E t \in Threads : TokenStep(t) /\ UNCHANGED <<now, configured>> /\ Elsewhere
    \/ \E t \in Threads : RequestPost(t) /\ UNCHANGED <<now, configured>> /\ Elsewhere
    \/ PostTakesTime /\ Elsewhere

SpecParam == InitParam /\ [][NextParam]_vars

(***************************************************************************)
(* The counter graph (care-plan-agent/simple_langgraph.py): one node,      *)
(* increment, which is the entry point, and a conditional edge on          *)
(* should_stop that leads to END or back to increment.                     *)
(***************************************************************************)
StopAt == 3

\* The most increments a run of the model needs, and how far above StopAt
\* a run may start.
MaxIncrements == 15
MaxAbove == 2

\* The counts a run is started with.
StartCounts == (StopAt - MaxIncrements)..(StopAt + MaxAbove)

\* increment: {"count": state["count"] + 1}
Increment(state) == [count |-> state.count + 1]

\* Mutant of ShouldStop: the graph stops only above three.
ShouldStopAbove(state) == state.count > StopAt

\* should_stop: state["count"] >= 3
ShouldStop(state) == state.count >= StopAt

\* The conditional edge: {True: END, False: "increment"}.
EdgeAfterIncrement(state) == IF ShouldStop(state) THEN "END" ELSE "increment"

\* app.stream({"count": c}): the entry point is increment.  cg_log holds
\* the count the run was started with, then the count each run of
\* increment returned.
InitCounter ==
    /\ IdleCred
    /\ IdleTools
    /\ IdleSel
    /\ IdleScorer
    /\ IdleRun
    /\ IdleEvidence
    /\ IdleMerge
    /\ IdleConc
    /\ IdleParam
    /\ cg_node = "increment"
    /\ \E c \in StartCounts : cg_state = [count |-> c] /\ cg_log = <<c>>

\* One step of the graph: the node increment runs, its update is written to
\* the state, and the conditional edge picks what runs next.
IncrementNode ==
    /\ cg_node = "increment"
    /\ cg_state' = Increment(cg_state)
    /\ cg_log' = Append(cg_log, Increment(cg_state).count)
    /\ cg_node' = EdgeAfterIncrement(Increment(cg_state))

NextCounter ==
    IncrementNode
    /\ UNCHANGED <<credVars, toolsVars, selVars, scorerVars, runVars, evVars, mergeVars,
                   concVars, paramVars>>

SpecCounter == InitCounter /\ [][NextCounter]_vars

\* The graph runtime runs the next node as long as there is one.
SpecCounterFair == SpecCounter /\ WF_vars(NextCounter)

(***************************************************************************)
(* Claims about the credential cache (checked under SpecCred).             *)
(***************************************************************************)
TokenCalls == 1..Len(token_log)

\* The get_token calls of domain d that returned strictly between the
\* returns of calls i and j.
CallsBetween(d, i, j) == {k \in TokenCalls : i < k /\ k < j /\ token_log[k].domain = d}

\* Call j is the first call for the domain of call i that returned after
\* call i.
NextCallFor(i, j) ==
    /\ i < j
    /\ token_log[j].domain = token_log[i].domain
    /\ CallsBetween(token_log[i].domain, i, j) = {}

\* From call i to call j the calls for the domain of call i ran one after
\* the other: none of them overlapped another call for that domain.
Sequential(i, j) ==
    \A k \in i..j : token_log[k].domain = token_log[i].domain => token_log[k].alone

ExchangeFailed(c) == c.sent /\ c.resp[1].kind \in FailedExchanges

ExchangeSucceeded(c) == c.sent /\ c.resp[1].kind = "ok"

\* C3 as stated: every bearer token get_token returns, cached or fresh, has
\* an expiry more than the 60 s margin after the time it is returned.
C3_EveryTokenBeyondMargin ==
    \A i \in TokenCalls :
        (token_log[i].alone /\ token_log[i].result # None)
            => token_log[i].after.expires_at > token_log[i].time + TokenBuffer

\* C3 amended: a call that no other call for the domain overlaps returns,
\* when it serves from the cache, the cached token with an expiry more than
\* 60 s after the time it is returned; a token just obtained by an exchange
\* is stored and returned with the expiry (clock when requests.post has
\* returned) + expires_in, which is beyond the margin exactly when
\* expires_in exceeds 60.
C3_CachedTokenBeyondMargin ==
    \A i \in TokenCalls :
        LET c == token_log[i] IN
        c.alone =>
        /\ (c.result # None /\ ~c.sent) =>
              /\ c.result = c.after.token
              /\ c.after.expires_at > c.time + TokenBuffer
        /\ ExchangeSucceeded(c) =>
              /\ c.result = c.resp[1].access_token
              /\ c.after = [token |-> c.resp[1].access_token,
                            expires_at |-> c.time + ExpiresIn(c.resp[1])]
              /\ (c.after.expires_at > c.time + TokenBuffer
                    <=> ExpiresIn(c.resp[1]) > TokenBuffer)

\* A token obtained by an exchange during which the clock advanced was
\* served from the cache at a later time, and some exchange answered with a
\* lifetime inside the margin.
C3_Witness ==
    /\ \E i \in TokenCalls :
          /\ token_log[i].alone /\ token_log[i].result # None /\ ~token_log[i].sent
          /\ \E h \in TokenCalls :
                /\ h < i /\ token_log[h].alone /\ ExchangeSucceeded(token_log[h])
                /\ token_log[h].called < token_log[h].time
                /\ token_log[h].time < token_log[i].time
                /\ token_log[h].result = token_log[i].result
    /\ \E i \in TokenCalls :
          /\ token_log[i].alone /\ ExchangeSucceeded(token_log[i])
          /\ ExpiresIn(token_log[i].resp[1]) <= TokenBuffer

\* C4: two get_token calls for one domain that no other call for the domain
\* overlaps, the second made while now + 60 is still before the expiry of
\* the token the first obtained: exactly one exchange request is sent in
\* total, and both return the same bearer.
C4_OneExchangeWithinValidity ==
    \A i, j \in TokenCalls :
        ( /\ i < j
          /\ token_log[i].domain = token_log[j].domain
          /\ ExchangeSucceeded(token_log[i])
          /\ Sequential(i, j)
          /\ token_log[j].called + TokenBuffer < token_log[i].after.expires_at )
        => /\ \A k \in CallsBetween(token_log[i].domain, i, j) \cup {j} : ~token_log[k].sent
           /\ token_log[j].result = token_log[i].result

\* The second call was made later than the first returned, whose exchange
\* had taken time, and within the validity of the token.
C4_Witness ==
    \E i, j \in TokenCalls :
        /\ i < j
        /\ token_log[i].domain = token_log[j].domain
        /\ ExchangeSucceeded(token_log[i])
        /\ Sequential(i, j)
        /\ token_log[i].called < token_log[i].time
        /\ token_log[i].time < token_log[j].called
        /\ token_log[j].called + TokenBuffer < token_log[i].after.expires_at
        /\ ~token_log[j].sent
        /\ token_log[j].result = token_log[i].result

\* A failed exchange stores nothing: the cached token and expiry are as they
\* were when the call was made (for a call no other call overlaps), and the
\* next call for the domain sends a new exchange.
FailureLeavesCache(i) ==
    /\ token_log[i].alone => token_log[i].after = token_log[i].before
    /\ \A j \in TokenCalls :
          (NextCallFor(i, j) /\ Sequential(i, j)) => token_log[j].sent

\* C5: a failed exchange (network error, non-2xx status, or a response body
\* without access_token) makes get_token return a failure, that is return
\* None without raising; the cached token and expiry are left as they were
\* before the call, and the next call for the domain sends a new exchange.
C5_FailureNotCached ==
    \A i \in TokenCalls :
        ExchangeFailed(token_log[i])
        => /\ token_log[i].result = None
           /\ token_log[i].raised = "None"
           /\ FailureLeavesCache(i)

\* What holds of C5: a failed exchange whose exception the token function
\* catches returns None, and every failed exchange, the one that raises
\* included, leaves the cache as it was and is followed by a new exchange.
C5_CaughtFailureNotCached ==
    \A i \in TokenCalls :
        ExchangeFailed(token_log[i])
        => /\ token_log[i].result = None
           /\ token_log[i].raised = "None"
                 <=> ExchangeException(token_log[i].resp[1]) \in CaughtByTokenFunction
           /\ FailureLeavesCache(i)

\* The token endpoint answered 200 with a body that is JSON but not an
\* object, after some time, while the cache held an expired token: the call
\* raised TypeError, and a later call for the same domain was made.
C5_TokenFunctionRaised ==
    \E i, j \in TokenCalls :
        /\ token_log[i].sent
        /\ token_log[i].resp[1].kind = "body_not_object"
        /\ token_log[i].raised = "TypeError"
        /\ token_log[i].before.token # None
        /\ token_log[i].called < token_log[i].time
        /\ NextCallFor(i, j)
        /\ Sequential(i, j)
        /\ token_log[j].sent

\* C6 as stated: with a required setting unset, get_token sends no exchange,
\* leaves the cache unchanged and returns an outcome that differs from the
\* outcome of a failed exchange.
C6_NotConfiguredDistinct ==
    \A i \in TokenCalls :
        ~CredentialsConfigured(configured[token_log[i].domain])
        => /\ ~token_log[i].sent
           /\ token_log[i].after = token_log[i].before
           /\ \A j \in TokenCalls :
                 ExchangeFailed(token_log[j]) => token_log[j].result # token_log[i].result

(***************************************************************************)
(* Claims about the tool directory (SpecTools, SpecSelect).                *)
(***************************************************************************)
Lookups == 1..Len(tools_log)

\* The lookup retrieved a catalog from the gateway.
ListSucceeded(c) == c.list_sent /\ c.listresp[1].kind = "ok"

\* From lookup i to lookup j the lookups of the key of lookup i ran one
\* after the other.
SequentialLookups(i, j) ==
    \A k \in i..j : tools_log[k].key = tools_log[i].key => tools_log[k].alone

\* C7 as stated: after list_tools succeeded for an endpoint at time t, every
\* list_tools call for it made before t + 300 returns the catalog of that
\* call and sends neither a token exchange nor a tools/list request,
\* whatever the catalog contained.
C7_AnyCatalogServedFromCache ==
    \A i, j \in Lookups :
        ( /\ i < j
          /\ tools_log[i].key = tools_log[j].key
          /\ ListSucceeded(tools_log[i])
          /\ SequentialLookups(i, j)
          /\ tools_log[j].called < tools_log[i].time + 300 )
        => /\ tools_log[j].result = tools_log[i].result
           /\ ~tools_log[j].token_sent
           /\ ~tools_log[j].list_sent

\* C7 amended: the same, provided the catalog retrieved was not empty; t is
\* the clock when the tools/list request has returned, and the lookups of
\* the endpoint do not overlap.
C7_NonEmptyCatalogServedFromCache ==
    \A i, j \in Lookups :
        ( /\ i < j
          /\ tools_log[i].key = tools_log[j].key
          /\ ListSucceeded(tools_log[i])
          /\ tools_log[i].result # <<>>
          /\ SequentialLookups(i, j)
          /\ tools_log[j].called < tools_log[i].time + 300 )
        => /\ tools_log[j].result = tools_log[i].result
           /\ ~tools_log[j].token_sent
           /\ ~tools_log[j].list_sent

\* A non-empty catalog was retrieved by a lookup during which the clock
\* advanced, and a later lookup, made 200 s after the retrieval when the
\* bearer token had expired, was answered from the cache.
C7_Witness ==
    \E i, j \in Lookups :
        /\ i < j
        /\ tools_log[i].key = tools_log[j].key
        /\ ListSucceeded(tools_log[i])
        /\ tools_log[i].result # <<>>
        /\ SequentialLookups(i, j)
        /\ tools_log[i].called < tools_log[i].time
        /\ tools_log[j].called = tools_log[i].time + 200
        /\ ~CachedTokenValid(token_cache["mcp_gateway"], tools_log[j].called)
        /\ tools_log[j].result = tools_log[i].result

\* The lookup was answered from the cache: nothing was sent and tools came
\* back.
ServedFromCache(c) == ~c.token_sent /\ ~c.list_sent /\ c.result # <<>>

\* The lookup found a cached catalog as old as the window or older.
FoundStale(c) == c.before.tools # <<>> /\ c.called - c.before.timestamp >= 300

\* C22: list_tools never returns a cached catalog that is 300 s old or
\* older.  A lookup that finds such an entry does not answer from it: when
\* its tools/list request succeeds the entry is replaced by the catalog
\* retrieved, stamped with the clock at that moment, and that catalog is
\* returned; when the refresh fails (no token, HTTP error, error payload)
\* no tools are returned and the stale entry is left as it was, so that the
\* following lookup finds it stale again.  The entry after the lookup is
\* stated for a lookup that no other lookup of the endpoint overlaps.
C22_StaleCatalogNeverServed ==
    \A j \in Lookups :
        LET c == tools_log[j] IN
        /\ ServedFromCache(c) =>
              c.result = c.before.tools /\ c.called - c.before.timestamp < 300
        /\ FoundStale(c) =>
              IF ListSucceeded(c)
              THEN /\ c.result = c.listresp[1].tools
                   /\ c.alone =>
                        c.after = [tools |-> c.listresp[1].tools, timestamp |-> c.time]
              ELSE /\ c.result = <<>>
                   /\ c.alone => c.after = c.before

\* A catalog retrieved at time t was found 300 s later by a lookup whose
\* refresh failed, and the lookup after that one refreshed the entry.
C22_Witness ==
    \E i, j, k \in Lookups :
        /\ i < j /\ j < k
        /\ tools_log[i].key = tools_log[j].key /\ tools_log[j].key = tools_log[k].key
        /\ SequentialLookups(i, k)
        /\ ListSucceeded(tools_log[i]) /\ tools_log[i].result # <<>>
        /\ tools_log[j].called = tools_log[i].time + 300
        /\ FoundStale(tools_log[j]) /\ ~ListSucceeded(tools_log[j])
        /\ tools_log[j].result = <<>>
        /\ FoundStale(tools_log[k]) /\ ListSucceeded(tools_log[k])
        /\ tools_log[k].after.timestamp = tools_log[k].time

\* The keywords (by position) that occur in a string, ignoring case.
KeywordsIn(str, keywords) ==
    {k \in 1..Len(keywords) : Contains(Lower(str), Lower(keywords[k]))}

\* The score the claim gives a tool.
ClaimedScore(tool, keywords) ==
    10 * Cardinality(KeywordsIn(tool.name, keywords))
    + 5 * Cardinality(KeywordsIn(tool.description, keywords))

\* C8: select_tool returns the tool with the highest score 10 x (keywords in
\* the name) + 5 x (keywords in the description), the earliest one on a tie,
\* and None exactly when every tool scores zero; a tool matching two keywords
\* by name beats a tool matching the same two only by description.
C8_SelectHighestScoreFirstOnTie ==
    sel_result.ran =>
        LET n == Len(sel_tools)
            sc(i) == ClaimedScore(sel_tools[i], sel_keywords)
            idx == sel_result.index
        IN  /\ idx \in 0..n
            /\ (idx = 0 <=> \A i \in 1..n : sc(i) = 0)
            /\ idx # 0 => /\ \A i \in 1..n : sc(i) <= sc(idx)
                          /\ \A i \in 1..(idx - 1) : sc(i) < sc(idx)
            /\ \A i, j \in 1..n :
                 ( /\ Len(sel_keywords) = 2
                   /\ KeywordsIn(sel_tools[i].name, sel_keywords) = {1, 2}
                   /\ KeywordsIn(sel_tools[j].name, sel_keywords) = {}
                   /\ KeywordsIn(sel_tools[j].description, sel_keywords) = {1, 2} )
                 => idx # j

\* select_tool ran on a list where a description-only match comes first, the
\* name match second, and a tool tying with the name match third.
C8_Witness ==
    /\ sel_result.ran
    /\ sel_keywords = <<Str.patient, Str.summary>>
    /\ sel_tools = <<ToolGetLabs, ToolGetPatientSummary, ToolGetPatientsIdSummary>>
    /\ sel_result.index = 2

(***************************************************************************)
(* Claims about the trial relevance scorer (SpecScorer).                   *)
(***************************************************************************)
\* What the scorers that have run and have not raised returned.
ScorerOutputs == {o \in {sc_main, sc_mcp} : o.ran /\ o.raised = "None"}

NonIncreasing(matches) ==
    \A i, j \in 1..Len(matches) : i < j => matches[i].suitability >= matches[j].suitability

\* The match is one of the trials the scorer was given.
FromInput(candidates, match) ==
    \E i \in 1..Len(candidates) :
        /\ candidates[i].id = match.id
        /\ candidates[i].title = match.title
        /\ candidates[i].condition = match.condition

\* C9: the Scorer returns at most 3 matches, in non-increasing order of
\* suitability, each of them one of the trials it scored (the candidates
\* retrieved, or for generate_evidence_pack_mcp its synthetic trials when
\* none was retrieved).
C9_AtMostThreeSorted ==
    \A out \in ScorerOutputs :
        /\ Len(out.matches) <= 3
        /\ NonIncreasing(out.matches)
        /\ \A k \in 1..Len(out.matches) : FromInput(out.candidates, out.matches[k])

\* The evidence agent retrieved more than three candidates that were not
\* already in order, and fetch_trials returned three matches of differing
\* suitability.
C9_Witness ==
    /\ sc_main.ran
    /\ Len(sc_trials) > 3
    /\ Len(sc_main.matches) = 3
    /\ sc_main.matches[1].id # sc_trials[1].id
    /\ sc_main.matches[1].suitability > sc_main.matches[3].suitability

\* The distances a trial declares, under either upstream field name.
DeclaredDistances(trial) ==
    {d[1] : d \in {x \in {trial.distance, trial.site_distance_km} : x # <<>>}}

MatchIds(matches) == {matches[k].id : k \in 1..Len(matches)}

\* C10: with a geographic filter, a trial whose declared distance exceeds
\* radius_km never appears in the Scorer's output, whichever field name
\* carries the distance; a trial with no declared distance is never dropped
\* by the filter (it is missing only when three matches outrank it).
C10_FarTrialsExcluded ==
    \A out \in ScorerOutputs :
        sc_context.geo # <<>> =>
            \A i \in 1..Len(out.candidates) :
                LET declared == DeclaredDistances(out.candidates[i]) IN
                /\ (declared # {} /\ \A d \in declared : d > sc_context.geo[1])
                      => out.candidates[i].id \notin MatchIds(out.matches)
                /\ (declared = {} /\ Len(out.matches) < 3)
                      => out.candidates[i].id \in MatchIds(out.matches)


(***************************************************************************)
(* Claims about the care-plan pipeline (specification SpecRun).            *)
(***************************************************************************)
\* The draft stage ran and ended in one of the outcomes the claim lists:
\* endpoint or credentials unconfigured, token exchange failure, HTTP error
\* or timeout, a content that is not JSON, or JSON that is not an object.
DraftOutcomeListed ==
    \/ observed.llm \in {"endpoint_not_configured", "credentials_not_configured",
                         "token_exchange_failed", "http_error_or_timeout"}
    \/ /\ observed.llm = "content"
       /\ \/ ExtractJsonBlock(observed.llm_text[1]) = <<>>
          \/ ExtractJsonBlock(observed.llm_text[1])[1].t # "object"

IsPrefix(s, t) == Len(s) <= Len(t) /\ \A i \in 1..Len(s) : s[i] = t[i]

\* C1: whenever the model-assisted draft stage ends in one of the listed
\* outcomes, the run still executes plan assembly and the caller receives a
\* 200 response carrying a plan card with a recommendation; the stage raises
\* nothing.
C1_DraftFailuresAbsorbed ==
    (pc = "done" /\ DraftOutcomeListed)
        => /\ raised = NoException
           /\ executed = Nodes
           /\ response.status = 200
           /\ response.plan_card # <<>>
           /\ response.plan_card[1].recommendation # <<>>

MandatoryStageFailed ==
    \/ observed.fetch \notin {"not_run", "ok"}
    \/ observed.evidence \notin {"not_run", "ok"}

\* C2: the stages run in the order fetch context, fetch evidence, model
\* draft, assemble, each at most once; and when the fetch-context or the
\* fetch-evidence stage fails, the failing stage is the last one executed,
\* no plan card is produced, and the caller receives status 502.
C2_MandatoryFailureIsBadGateway ==
    /\ IsPrefix(executed, Nodes)
    /\ (pc = "done" /\ MandatoryStageFailed)
          => /\ executed \in {SubSeq(Nodes, 1, 1), SubSeq(Nodes, 1, 2)}
             /\ run_state.plan_card = <<>>
             /\ response.plan_card = <<>>
             /\ response.status = 502

\* The key of the state each stage returns in its update.
OwnKey ==
    [fetch_patient_summary |-> "patient_summary", call_evidence_agent |-> "evidence_pack",
     llm_plan_card |-> "llm_plan_card", assemble_plan |-> "plan_card"]

\* A stage leaves every key of the state but its own as it was, and the
\* assemble stage leaves the heuristic draft it built as it built it.  What
\* the assemble stage leaves of the model draft and of the heuristic draft
\* is what the writes of _merge_plan_cards leave of the objects handed to
\* it (AssembleEffects).
StageFrame ==
    pc \in DOMAIN OwnKey =>
        /\ \A k \in DOMAIN run_state \ {OwnKey[pc]} : run_state'[k] = run_state[k]
        /\ (pc = "assemble_plan" /\ pc' # pc) =>
              /\ observed'.heuristic # <<>>
              /\ observed'.heuristic[1].after = observed'.heuristic[1].before

\* C29: no stage of the pipeline changes what an earlier stage produced:
\* over the model-draft stage and the assemble stage (the merge included)
\* the patient summary, the evidence pack, the model draft and the
\* heuristic draft stay equal in value, and each stage adds only its own
\* key to the state.
C29_StagesLeaveEarlierStateAlone == [][StageFrame]_vars

\* The index of the draft's entry that _pop_candidate pops for the first
\* trial of the heuristic draft, 0 when there is none.
PoppedForFirstMatch ==
    PopCandidate(observed.heuristic[1].before.trial_matches[1].items[1],
                 SelectSeq(CoerceList(run_state.llm_plan_card[1].trial_matches[1]), IsDict))

\* A run has ended whose model draft was merged into the heuristic draft:
\* the draft set the recommendation and offered two trials, of which
\* _pop_candidate popped the first for the first trial of the heuristic
\* draft; the plan card has three trials; the draft still has its two, and
\* the heuristic draft is as it was built.
C29_Witness ==
    /\ pc = "END"
    /\ run_state.llm_plan_card # <<>>
    /\ run_state.plan_card # <<>>
    /\ observed.heuristic # <<>>
    /\ observed.heuristic[1].after = observed.heuristic[1].before
    /\ run_state.plan_card[1] # observed.heuristic[1].before
    /\ run_state.plan_card[1].recommendation = run_state.llm_plan_card[1].recommendation
    /\ Len(observed.heuristic[1].before.trial_matches[1].items) = 2
    /\ run_state.llm_plan_card[1].trial_matches # <<>>
    /\ Len(run_state.llm_plan_card[1].trial_matches[1].items) = 2
    /\ PoppedForFirstMatch = 1
    /\ Len(run_state.plan_card[1].trial_matches[1].items) = 3

(***************************************************************************)
(* Claims about the scenario trial and the heuristic grader                *)
(* (specification SpecScorer).                                             *)
(***************************************************************************)
\* The context of the scenario: age 58, Type 2 diabetes mellitus, eGFR 44.0,
\* radius 25 km.
ScenarioContext ==
    /\ sc_context.age = 58
    /\ sc_context.diagnosis = Str.Type2DiabetesMellitus
    /\ sc_context.egfr = 44
    /\ sc_context.geo = <<250>>

\* The eligibility texts a trial declares, under either field name.
DeclaredEligibility(trial) ==
    {e[1] : e \in {x \in {trial.eligibilitySummary, trial.eligibility_summary} : x # <<>>}}

\* A trial titled 'Renal Outcomes in Diabetes' at 12.4 km whose eligibility
\* text contains 'eGFR' and whose condition contains `text', ignoring case.
ScenarioTrial(trial, text) ==
    /\ trial.title = Str.Title4
    /\ DeclaredDistances(trial) = {124}
    /\ Contains(Lower(trial.condition), Lower(text))
    /\ \E e \in DeclaredEligibility(trial) : Contains(e, Str.eGFR)

\* The candidates that are scenario trials, by position.
ScenarioTrials(text) == {i \in 1..Len(sc_trials) : ScenarioTrial(sc_trials[i], text)}

\* The position of candidate i in the matches fetch_trials returned (0 when
\* it was not returned).
RankOf(i) ==
    IF \E k \in 1..Len(sc_main.matches) : sc_main.matches[k].id = sc_trials[i].id
    THEN CHOOSE k \in 1..Len(sc_main.matches) : sc_main.matches[k].id = sc_trials[i].id
    ELSE 0

\* C11 as stated: in the scenario context, the one candidate titled 'Renal
\* Outcomes in Diabetes' at 12.4 km whose condition contains 'diabetes' and
\* whose eligibility contains 'eGFR' is ranked first with a suitability of
\* at least 2.5 and the grade 'high'.
C11_DiabetesTrialHighAndFirst ==
    (sc_main.ran /\ ScenarioContext)
        => \A i \in ScenarioTrials(Str.diabetes) :
              ScenarioTrials(Str.diabetes) = {i}
                 => /\ RankOf(i) = 1
                    /\ sc_main.matches[1].suitability >= 250
                    /\ sc_main.analyses[1].pico_grade = "high"

\* C11 amended: when the condition contains the diagnosis text itself, the
\* trial has suitability 3.5 and the grade 'high', and only candidates that
\* were listed before it and also score 3.5 are ranked before it; it is
\* returned unless three such candidates fill the output.
C11_DiagnosisTrialHighAndAheadOfLower ==
    (sc_main.ran /\ ScenarioContext)
        => \A i \in ScenarioTrials(Str.Type2DiabetesMellitus) :
              LET k == RankOf(i)
                  ahead == IF k = 0 THEN 1..Len(sc_main.matches) ELSE 1..(k - 1)
              IN  /\ k = 0 => Len(sc_main.matches) = 3
                  /\ k # 0 => /\ sc_main.matches[k].suitability = 350
                              /\ sc_main.analyses[k].trial_id = sc_trials[i].id
                              /\ sc_main.analyses[k].pico_grade = "high"
                  /\ \A j \in ahead :
                        /\ sc_main.matches[j].suitability = 350
                        /\ \E h \in 1..(i - 1) : sc_trials[h].id = sc_main.matches[j].id

\* The scenario trial was scored after an earlier candidate of the same
\* suitability and is ranked second, ahead of a less suitable candidate.
C11_Witness ==
    /\ sc_main.ran /\ ScenarioContext
    /\ \E i \in ScenarioTrials(Str.Type2DiabetesMellitus) :
          /\ i = 3
          /\ RankOf(i) = 2
          /\ sc_main.matches[1].suitability = 350
          /\ sc_main.matches[3].suitability < 350

\* The grade the bands of the claim give a suitability (in hundredths).
BandOf(suitability) ==
    IF suitability >= 250 THEN "high"
    ELSE IF suitability >= 150 THEN "medium"
    ELSE "low"

\* C12: the heuristic grader gives every trial match exactly one grade:
\* 'high' when suitability >= 2.5, 'medium' when 1.5 <= suitability < 2.5,
\* 'low' otherwise; every match is graded.
C12_GradeFollowsBands ==
    \A out \in {o \in {sc_main, sc_mcp} : o.ran} :
        /\ Len(out.analyses) = Len(out.matches)
        /\ \A k \in 1..Len(out.matches) :
              /\ out.analyses[k].pico_grade \in {"high", "medium", "low"}
              /\ out.analyses[k].pico_grade = BandOf(out.matches[k].suitability)

\* The evidence agent graded a match of suitability exactly 1.5, a lower
\* one and one of at least 2.5.
C12_Witness ==
    /\ sc_main.ran
    /\ \E k \in 1..Len(sc_main.matches) :
          sc_main.matches[k].suitability = 150 /\ sc_main.analyses[k].pico_grade = "medium"
    /\ \E k \in 1..Len(sc_main.matches) :
          sc_main.matches[k].suitability < 150 /\ sc_main.analyses[k].pico_grade = "low"
    /\ \E k \in 1..Len(sc_main.matches) :
          sc_main.matches[k].suitability >= 250 /\ sc_main.analyses[k].pico_grade = "high"

\* What is left of a match's suitability when the diagnosis, eGFR and age
\* contributions of its trial are taken off: the renal contribution.
RenalContribution(context, trial, match) ==
    match.suitability
    - (IF Contains(Lower(trial.condition), Lower(context.diagnosis))
       THEN DiagnosisScore ELSE 0)
    - (IF /\ context.egfr <= EgfrThreshold
          /\ Eligibility(trial) # <<>> /\ Eligibility(trial)[1] # <<>>
          /\ Contains(Eligibility(trial)[1], Str.eGFR)
       THEN EgfrScore ELSE 0)
    - (IF context.age >= AgeThreshold THEN AgeScore ELSE 0)

\* The text contains 'ckd' or 'renal', ignoring case.
HasRenalMarker(text) ==
    Contains(Lower(text), Str.ckd) \/ Contains(Lower(text), Str.renal)

\* C26: the Scorer adds 0.8 to a trial exactly when the trial's condition or
\* its title contains 'ckd' or 'renal' (either marker in either field), and
\* at most once.
C26_RenalBonusForEitherMarkerInEitherField ==
    sc_main.ran =>
        \A k \in 1..Len(sc_main.matches), i \in 1..Len(sc_trials) :
            sc_trials[i].id = sc_main.matches[k].id =>
                RenalContribution(sc_context, sc_trials[i], sc_main.matches[k]) =
                    IF HasRenalMarker(sc_trials[i].condition)
                       \/ HasRenalMarker(sc_trials[i].title)
                    THEN RenalScore ELSE 0

\* A trial with 'ckd' in its title, or 'renal' in its condition, was scored
\* without the renal contribution.
C26_MarkerWithoutBonus ==
    /\ sc_main.ran
    /\ \E k \in 1..Len(sc_main.matches), i \in 1..Len(sc_trials) :
          /\ sc_trials[i].id = sc_main.matches[k].id
          /\ \/ Contains(Lower(sc_trials[i].title), Str.ckd)
             \/ Contains(Lower(sc_trials[i].condition), Str.renal)
          /\ RenalContribution(sc_context, sc_trials[i], sc_main.matches[k]) = 0

(***************************************************************************)
(* Claims about evidence grading (specification SpecGrade).                *)
(***************************************************************************)
\* The grading request was answered in one of the ways the claim lists: no
\* response, unparseable text, JSON that is an array or a scalar, or an
\* object whose analyses list has any number of entries, objects or not.
GradeReplyListed ==
    \/ ev_reply.kind \in UnavailableGradings \cup {"empty_content"}
    \/ /\ ev_reply.kind = "content"
       /\ \/ ev_reply.text.form = "prose"
          \/ ev_reply.text.value.t \in {"array", "number", "null"}
          \/ ev_reply.text.value.analyses.kind = "list"

\* C13: whatever the model answered to the grading request, the evidence
\* pack returned has exactly one analysis per retained trial match, the i-th
\* analysis carrying the id and the title of the i-th match.
C13_OneAnalysisPerMatch ==
    (ev_pc = "done" /\ GradeReplyListed)
        => /\ ev_response.status = 200
           /\ ev_response.evidence_pack # <<>>
           /\ LET pack == ev_response.evidence_pack[1] IN
              /\ Len(pack.analyses) = Len(pack.trials)
              /\ pack.trials = ev_state.trial_matches
              /\ \A i \in 1..Len(pack.trials) :
                    /\ pack.analyses[i].trial_id = pack.trials[i].id
                    /\ pack.analyses[i].trial_title = pack.trials[i].title

\* The chat endpoint answered the drafting request with a text that does not
\* parse to a JSON object: prose without JSON, or JSON that is an array or a
\* scalar.
ReplyNotJsonObject ==
    /\ observed.llm = "content"
    /\ \/ observed.llm_text[1].form \in {"prose", "prose_bad_braces"}
       \/ /\ observed.llm_text[1].form = "json"
          /\ observed.llm_text[1].value.t # "object"

\* The member is absent or null.
Unset(member) == member = <<>> \/ member[1].t = "null"

\* C18: when the model's text does not parse to a JSON object, no model
\* draft is placed in the state and the plan card returned has neither
\* llm_model nor generated_at.
C18_NonObjectReplyGivesNoDraft ==
    (pc = "done" /\ ReplyNotJsonObject)
        => /\ run_state.llm_plan_card = NoDraft
           /\ response.status = 200
           /\ Unset(response.plan_card[1].llm_model)
           /\ Unset(response.plan_card[1].generated_at)

\* The drafting stage ran without a chat endpoint or without credentials.
ModelNotConfigured ==
    observed.llm \in {"endpoint_not_configured", "credentials_not_configured"}

\* C19: when the chat endpoint or the credentials are not configured, the
\* plan card the pipeline ends with is the heuristic card exactly, with
\* llm_model, generated_at and notes unset, and the response carries that
\* card as the response model renders it, the three members being null.
C19_UnconfiguredModelGivesHeuristic ==
    (pc = "done" /\ ModelNotConfigured)
        => /\ response.status = 200
           /\ run_state.plan_card = <<DraftPlanCard(run_state)>>
           /\ \A m \in {run_state.plan_card[1].llm_model,
                         run_state.plan_card[1].generated_at,
                         run_state.plan_card[1].notes} : m = <<>>
           /\ response.plan_card = <<ParsePlanCard(DraftPlanCard(run_state))>>
           /\ \A m \in {response.plan_card[1].llm_model,
                         response.plan_card[1].generated_at,
                         response.plan_card[1].notes} : m = <<NullValue>>
           /\ \A k \in {"recommendation", "rationale", "alternatives", "safety_checks"} :
                 response.plan_card[1][k] = DraftPlanCard(run_state)[k]

\* A run without credentials answered with a plan card that has the trial
\* matches of the evidence pack, the distance of the second as a float.
C19_Witness ==
    /\ pc = "done"
    /\ observed.llm = "credentials_not_configured"
    /\ "API_MANAGER_CHAT_ENDPOINT" \in endpoints
    /\ run_state.evidence_pack = <<SamplePack>>
    /\ response.status = 200
    /\ run_state.plan_card[1].trial_matches = <<ListValue(PackMatches)>>
    /\ Len(response.plan_card[1].trial_matches[1].items) = 2
    /\ response.plan_card[1].trial_matches[1].items[2].site_distance_km
          = <<NumberValue(<<"4", "0", ".", "0">>)>>
    /\ response.plan_card[1].trial_matches[1].items[2].title = <<StringValue(Str.TrialB)>>

\* C20: when the patient record has no date of birth or no eGFR, the
\* evidence stage fails validation, no evidence request is sent and the run
\* ends with 502; an evidence request carries only an age and an eGFR of
\* the record.
C20_MissingAgeOrEgfrFailsValidation ==
    /\ (pc = "done" /\ observed.record \in {"no_birth_date", "no_egfr"})
          => /\ observed.evidence = "validation"
             /\ ~observed.evidence_sent
             /\ response.status = 502
    /\ observed.evidence_payload # <<>> => observed.record = "complete"

(***************************************************************************)
(* Claims about merging plan cards (specification SpecMerge).              *)
(***************************************************************************)
\* _merge_plan_cards has returned or raised.
Merged == mg_result # NotMerged

\* Every call of _merge_plan_cards considered on its own leaves its two
\* arguments equal in value to what they were, and the card it returns is
\* the heuristic card with the assignments made to merged.
MergeLeavesArguments ==
    /\ DraftAfterMerge(mg_primary, mg_fallback) = mg_primary
    /\ FallbackAfterMerge(mg_primary, mg_fallback) = mg_fallback
    /\ (Merged /\ mg_result[1].raised = NoException)
          => mg_result[1].card = CardFromWrites(mg_primary, mg_fallback)

\* C14: merging None or an empty draft into a heuristic card raises nothing
\* and returns a card equal to the heuristic card in every field, with no
\* field added.
C14_AbsentDraftIsIdentity ==
    (Merged /\ mg_primary \in {NullValue, EmptyCard})
        => /\ mg_result[1].raised = NoException
           /\ mg_result[1].card = mg_fallback

\* An empty draft and None were both merged into a heuristic card that has
\* trial matches and evidence highlights.
C14_Witness ==
    /\ Merged
    /\ mg_primary \in {NullValue, EmptyCard}
    /\ mg_fallback = HeuristicCard(2, 2)
    /\ mg_result[1].card.trial_matches[1].items = PackMatches

\* The draft holds a recommendation that is a non-empty string, and nothing
\* else.
OnlyRecommendation ==
    /\ mg_primary.t = "object"
    /\ mg_primary.recommendation # <<>>
    /\ IsStr(mg_primary.recommendation[1])
    /\ mg_primary.recommendation[1].v # <<>>
    /\ mg_primary = [EmptyCard EXCEPT !.recommendation = mg_primary.recommendation]

\* C15: when the draft supplies only recommendation = X, X a non-empty
\* string, the merged card has recommendation X and every other field as in
\* the heuristic card.
C15_OnlyRecommendationChanges ==
    (Merged /\ OnlyRecommendation)
        => /\ mg_result[1].raised = NoException
           /\ mg_result[1].card =
                  [mg_fallback EXCEPT !.recommendation = mg_primary.recommendation]

\* A draft with only a recommendation that differs from the heuristic one
\* was merged into a heuristic card with trial matches and highlights.
C15_Witness ==
    /\ Merged
    /\ OnlyRecommendation
    /\ mg_primary.recommendation # mg_fallback.recommendation
    /\ mg_fallback = HeuristicCard(2, 2)
    /\ mg_result[1].card.recommendation = <<StringValue(Str.Dose10mg)>>
    /\ mg_result[1].card.rationale = mg_fallback.rationale

\* The objects of a trial_matches member.
MatchObjects(member) == SelectSeq(CoerceList(Get(member)), IsDict)

\* The draft entry is for a trial the heuristic card lists.
InBaseline(entry) ==
    \E i \in 1..Len(MatchObjects(mg_fallback.trial_matches)) :
        SameTrial(MatchObjects(mg_fallback.trial_matches)[i], entry)

NotInBaseline(entry) == ~InBaseline(entry)

\* C16: the merged trial matches are one entry per heuristic match, in the
\* heuristic order, followed by exactly the draft entries that are for no
\* heuristic trial, so that no entry after the heuristic ones has the id or
\* the title of a heuristic match.
C16_BaselineThenUnmatchedOnly ==
    (Merged /\ mg_result[1].raised = NoException /\ mg_primary.t = "object"
            /\ Truthy(Get(mg_primary.trial_matches)))
        => LET base == MatchObjects(mg_fallback.trial_matches)
               added == SelectSeq(MatchObjects(mg_primary.trial_matches), NotInBaseline)
               out == MatchObjects(mg_result[1].card.trial_matches)
               given == MatchObjects(mg_primary.trial_matches)
           IN  /\ Len(out) = Len(base) + Len(added)
               /\ \A i \in 1..Len(base) :
                     \/ SameTrial(base[i], out[i])
                     \/ \E j \in 1..Len(given) :
                           SameTrial(base[i], given[j]) /\ SameTrial(given[j], out[i])
               /\ \A j \in (Len(base) + 1)..Len(out) : NotInBaseline(out[j])

\* C17: _merge_plan_cards raises nothing, whatever JSON object the draft is.
C17_MergeNeverFails ==
    Merged => mg_result[1].raised = NoException

\* The draft entries among `left' with the registry id of `base'.
SameIdEntries(base, left) ==
    {k \in 1..Len(left) : SameKey(MatchKey(base.nct_id), MatchKey(left[k].nct_id))}

\* The draft entries among `left' with the title of `base', ignoring case.
SameTitleEntries(base, left) ==
    {k \in 1..Len(left) : SameKey(MatchKey(base.title), MatchKey(left[k].title))}

DraftHasTrialMatches ==
    Merged /\ mg_primary.t = "object" /\ Truthy(Get(mg_primary.trial_matches))

\* The pairing of each heuristic match with a draft entry in the merge made.
MergePairings ==
    IF DraftHasTrialMatches
    THEN Pairings(MatchObjects(mg_fallback.trial_matches),
                  MatchObjects(mg_primary.trial_matches))
    ELSE <<>>

\* C24: a heuristic match is paired with the draft entry that has its
\* registry id whenever the draft has such an entry, and with an entry that
\* has its title (ignoring case) only when no entry has its id, in whatever
\* order the draft lists its entries.
C24_PairedByIdBeforeTitle ==
    \A i \in DOMAIN MergePairings :
        LET p == MergePairings[i] IN
        IF SameIdEntries(p.base, p.left) # {} THEN p.idx \in SameIdEntries(p.base, p.left)
        ELSE IF SameTitleEntries(p.base, p.left) # {}
        THEN p.idx \in SameTitleEntries(p.base, p.left)
        ELSE p.idx = 0

\* A heuristic match was paired by title with one draft entry although a
\* later draft entry has its registry id.
C24_TitleEntryTakenFirst ==
    \E i \in DOMAIN MergePairings :
        LET p == MergePairings[i] IN
        /\ p.idx \in SameTitleEntries(p.base, p.left)
        /\ p.idx \notin SameIdEntries(p.base, p.left)
        /\ \E k \in SameIdEntries(p.base, p.left) : k > p.idx

\* The value the claim gives a text field of the merged card: the draft's
\* when it is a non-empty string, else the heuristic's.
NonEmptyStringOrHeuristic(member, fallback) ==
    IF IsStr(Get(member)) /\ Get(member).v # <<>> THEN member ELSE fallback

\* C25: in the merged card, recommendation and rationale each take the
\* draft's value only if that value is a non-empty string; when the draft's
\* value is absent, not a string or the empty string, the heuristic value
\* is kept.
C25_TextsTakenOnlyWhenNonEmptyStrings ==
    (Merged /\ mg_result[1].raised = NoException /\ mg_primary.t = "object")
        => /\ mg_result[1].card.recommendation =
                  NonEmptyStringOrHeuristic(mg_primary.recommendation,
                                            mg_fallback.recommendation)
           /\ mg_result[1].card.rationale =
                  NonEmptyStringOrHeuristic(mg_primary.rationale, mg_fallback.rationale)

\* A draft whose recommendation is the empty string was merged and the
\* merged card has the empty recommendation.
C25_EmptyStringReplacesHeuristic ==
    /\ Merged
    /\ mg_primary.t = "object"
    /\ mg_primary.recommendation = <<StringValue(<<>>)>>
    /\ mg_fallback.recommendation # <<StringValue(<<>>)>>
    /\ mg_result[1].card.recommendation = <<StringValue(<<>>)>>

(***************************************************************************)
(* Claims about concurrent get_token calls (specification SpecCred).       *)
(***************************************************************************)
NoCallRunning == \A t \in Threads : Local(t).pc = "idle"

\* The exchange responses for the token of domain d that calls received.
IssuedFor(d) == {p \in conc.issued : p.domain = d}

\* The token and expiry pairs of domain d that come from one source: a
\* token-exchange response, or the cache as it was at the start.
ConsistentPairs(d) ==
    {[token |-> p.token, expires_at |-> p.expires_at] : p \in IssuedFor(d)}
    \cup {EmptyTokenCache}

\* C21: under every interleaving of concurrent get_token calls for one trust
\* domain, once the calls have completed the cached token and the cached
\* expiry come from the same token-exchange response, and no call is handed
\* a cached token that it validated against the expiry of another token.
C21_CachedTokenAndExpiryFromOneResponse ==
    /\ NoCallRunning => \A d \in Domains : token_cache[d] \in ConsistentPairs(d)
    /\ \A h \in conc.handed :
          [token |-> h.token, expires_at |-> h.expires_at] \in ConsistentPairs(h.domain)

\* Two calls have exchanged, both have completed, and the cache holds the
\* token of one response with the expiry of the other.
C21_TornCache ==
    /\ NoCallRunning
    /\ \E d \in Domains :
          /\ Cardinality(IssuedFor(d)) >= 2
          /\ token_cache[d] \notin ConsistentPairs(d)

(***************************************************************************)
(* Claims about the entries of the model's grading (specification          *)
(* SpecGrade).                                                             *)
(***************************************************************************)
\* The model's reply held a list of analyses and llm_grade_trials has
\* reconciled it with the trials.
GradingReconciled ==
    /\ ev_pc \in {"analyze_evidence", "END", "done"}
    /\ ev_state.trial_matches # <<>>
    /\ ev_reply.kind = "content"
    /\ ev_reply.text.form = "json"
    /\ ev_reply.text.value.t = "object"
    /\ ev_reply.text.value.analyses.kind = "list"

ModelEntries == ev_reply.text.value.analyses.entries

\* For each trial, the entry of the model's list that was used for it.
Selections ==
    IF GradingReconciled
    THEN EntrySelections(ev_state.trial_matches, 1, ModelEntries, 0)
    ELSE <<>>

\* C23: in grade_with_model each entry of the model's analysis list is used
\* for at most one trial: an entry selected by position is one no trial has
\* claimed, and an entry matched by identifier is not attached to another
\* trial.
C23_EntryUsedForAtMostOneTrial ==
    \A i, j \in DOMAIN Selections :
        (i # j /\ Selections[i].entry # 0) => Selections[i].entry # Selections[j].entry

\* An entry matched to one trial by its identifier was afterwards taken by
\* position for a later trial.
C23_EntryUsedTwice ==
    \E i, j \in DOMAIN Selections :
        /\ i < j
        /\ Selections[i].how = "trial_id"
        /\ Selections[j].how = "position"
        /\ Selections[i].entry = Selections[j].entry

\* The selections are those the analyses were built from.
SelectionsAgreeWithAnalyses ==
    GradingReconciled =>
        /\ ev_state.analyses # <<>>
        /\ \A i \in DOMAIN Selections :
              ev_state.analyses[1][i] =
                  IF Selections[i].entry = 0
                  THEN SyntheticLlmGrade(ev_state.trial_matches[i])
                  ELSE ReconciledAnalysis(ev_state.trial_matches[i],
                                          ModelEntries[Selections[i].entry])

Grades == {"high", "medium", "low"}

\* C28: every EvidenceAnalysis of every evidence pack returned has a grade
\* in {high, medium, low}, whether it was graded by the heuristic or
\* reconciled from the model's entries.
C28_EveryGradeIsHighMediumOrLow ==
    (ev_response.status = 200 /\ ev_response.evidence_pack # <<>>) =>
        \A i \in DOMAIN ev_response.evidence_pack[1].analyses :
            ev_response.evidence_pack[1].analyses[i].pico_grade \in Grades

(***************************************************************************)
(* Claims about the parameter mapping (specification SpecParam).           *)
(***************************************************************************)
\* The properties and the required names of the schema the tool was
\* selected with, empty when the key or the schema is absent.
SchemaProperties ==
    IF mp_schema[1].best_tool.inputSchema = <<>> THEN <<>>
    ELSE IF mp_schema[1].best_tool.inputSchema[1].properties = <<>> THEN <<>>
    ELSE mp_schema[1].best_tool.inputSchema[1].properties[1]

SchemaRequired ==
    IF mp_schema[1].best_tool.inputSchema = <<>> THEN <<>>
    ELSE IF mp_schema[1].best_tool.inputSchema[1].required = <<>> THEN <<>>
    ELSE mp_schema[1].best_tool.inputSchema[1].required[1]

\* The positions of the schema parameters whose name contains both
\* 'patient' and 'id', ignoring case.
PatientIdPositions ==
    {i \in 1..Len(SchemaProperties) :
        /\ Contains(Lower(SchemaProperties[i]), Lower(Str.patient))
        /\ Contains(Lower(SchemaProperties[i]), Lower(Str.id))}

\* The name the claim gives.
ClaimedParameter ==
    IF PatientIdPositions # {}
    THEN SchemaProperties[CHOOSE i \in PatientIdPositions :
                              \A j \in PatientIdPositions : i <= j]
    ELSE IF SchemaRequired # <<>> THEN SchemaRequired[1]
    ELSE DefaultParam

\* The arguments the claim gives: one argument, under the claimed name,
\* holding the patient id of the request.
ClaimedArguments == {[name |-> ClaimedParameter, value |-> mp_schema[1].patient_id]}

\* C27 as stated: map_parameter returns the first schema parameter whose
\* name contains both 'patient' and 'id' (ignoring case) if there is one,
\* otherwise the first required parameter, otherwise 'patient_id'; the tool
\* is then invoked with exactly one argument, under that name, holding the
\* patient id of the request.
C27_ToolInvokedWithMappedParameter ==
    mp_call # <<>> =>
        /\ mp_call[1].arguments = ClaimedArguments
        /\ mp_call[1].requested

\* C27 amended: the name is chosen as stated and _call_mcp_tool is called
\* with exactly one argument, under that name, holding the patient id of
\* the request; the tools/call request is sent, with a bearer token, when
\* the token function returns a token, and when it returns none or raises,
\* nothing is sent and fetch_patient_summary raises RuntimeError or the
\* token function's TypeError.
C27_ParameterMappedFromSchema ==
    /\ \A t \in Threads :
          (Local(t).pc = "request_post" /\ Local(t).op = "call_tool")
              => Local(t).result \in Tokens
    /\ mp_call # <<>> =>
          /\ mp_call[1].arguments = ClaimedArguments
          /\ mp_call[1].requested <=> mp_call[1].reply \in {r.kind : r \in ToolCallResponses}
          /\ mp_call[1].reply = NoToken(TRUE).kind
                => ~mp_call[1].requested /\ mp_call[1].raised = "RuntimeError"
          /\ mp_call[1].reply = TokenRaised.kind
                => ~mp_call[1].requested /\ mp_call[1].raised = "TypeError"

\* The tool was called under an upper-case name found second among the
\* properties, although another name is required; the cached token had
\* expired, a new one was obtained, and the tools/call request was sent.
C27_Witness ==
    /\ mp_call # <<>>
    /\ Len(SchemaProperties) = 2
    /\ PatientIdPositions = {2}
    /\ SchemaProperties[2] # Lower(SchemaProperties[2])
    /\ SchemaRequired # <<>>
    /\ SchemaRequired[1] # SchemaProperties[2]
    /\ Cardinality(mp_call[1].arguments) = 1
    /\ \E a \in mp_call[1].arguments : a.name = SchemaProperties[2]
    /\ mp_call[1].requested
    /\ now > StartTime
    /\ token_cache["mcp_gateway"].expires_at > StartTime + DefaultExpiresIn

(***************************************************************************)
(* Claims about the counter graph (specification SpecCounterFair).         *)
(***************************************************************************)
\* The run was started with a count c, 0 <= c <= 2.
StartedBelowThree == cg_log # <<>> /\ cg_log[1] \in 0..2

\* The number of times increment has run.
IncrementRuns == Len(cg_log) - 1

\* The count never exceeds 3, and a run that has ended has the count 3 and
\* has run increment 3 - c times.
CounterWithinThree ==
    StartedBelowThree =>
        /\ cg_state.count <= 3
        /\ cg_node = "END" => cg_state.count = 3 /\ IncrementRuns = 3 - cg_log[1]

\* C30: the counter graph started with a count c, 0 <= c <= 2, terminates;
\* increment runs exactly 3 - c times, the final count is exactly 3, and the
\* count never exceeds 3.
C30_CounterStopsAtThree ==
    /\ []CounterWithinThree
    /\ [](StartedBelowThree => <>(cg_node = "END"))

\* A run started with the count 0 has ended after three increments.
C30_Witness ==
    /\ cg_log # <<>>
    /\ cg_log[1] = 0
    /\ cg_node = "END"
    /\ cg_state.count = 3
    /\ cg_log = <<0, 1, 2, 3>>
====
